---------------------------- MODULE Spec2Model ----------------------------
(***************************************************************************)
(* Model of the ain-helper survey calculators (React/TypeScript):          *)
(*   - annualIncome.tsx   SeaweedFarmingCalculator: species rows, the      *)
(*     frequency modal, parseRatio, calculateAnnualSales                   *)
(*   - seaweedSchedule    (src/unnamed/part_000): totalTimes               *)
(*   - utils              (App.tsx 149-164): formatNumber, CONFIG          *)
(*   - householdIncome.tsx  HouseholdIncomeTable: members, active index    *)
(*   - investment form    (src/unnamed/part_002): items, depreciation      *)
(*   - fisheriestForm.tsx SeaweedInputsForm: items, ranges, totals         *)
(*                                                                         *)
(* JavaScript numbers are modelled as extended rationals: a record         *)
(* [n |-> numerator, d |-> denominator] with d > 0 and gcd(n, d) = 1 for a *)
(* finite value, and d = 0 for the three special values                    *)
(* (n = 1: Infinity, n = -1: -Infinity, n = 0: NaN).  Rounding of IEEE     *)
(* doubles is below the resolution of the model; -0 is identified with 0.  *)
(* JavaScript strings are sequences of one-character strings.              *)
(***************************************************************************)
EXTENDS Integers, Sequences, FiniteSets, TLC

(***************************************************************************)
(* JavaScript numbers                                                      *)
(***************************************************************************)
Abs(i) == IF i < 0 THEN -i ELSE i

RECURSIVE GCD(_, _)
GCD(a, b) == IF b = 0 THEN a ELSE GCD(b, a % b)

\* The finite number n/d (d # 0) in lowest terms with a positive denominator.
Frac(n, d) ==
  LET s == IF d < 0 THEN -1 ELSE 1
      g == GCD(Abs(n), Abs(d))
  IN  [n |-> (s * n) \div g, d |-> (s * d) \div g]

Num(i) == [n |-> i, d |-> 1]

NaN == [n |-> 0, d |-> 0]

Infinity == [n |-> 1, d |-> 0]

NegInfinity == [n |-> -1, d |-> 0]

isNaN(x) == x.d = 0 /\ x.n = 0

isFinite(x) == x.d > 0

Sign(x) == IF x.n > 0 THEN 1 ELSE IF x.n < 0 THEN -1 ELSE 0

\* x > y, x >= y, x < y, x <= y, x === y of JavaScript: all false on NaN.
Gt(x, y) ==
  IF isNaN(x) \/ isNaN(y) THEN FALSE
  ELSE IF x.d = 0 /\ y.d = 0 THEN x.n > y.n
  ELSE x.n * y.d > y.n * x.d

Eq(x, y) == ~isNaN(x) /\ ~isNaN(y) /\ x = y

Ge(x, y) == Gt(x, y) \/ Eq(x, y)

Lt(x, y) == Gt(y, x)

Le(x, y) == Ge(y, x)

\* ToBoolean of a number: 0 and NaN are falsy.
Truthy(x) == ~isNaN(x) /\ x # Num(0)

\* x || y on numbers.
OrElse(x, y) == IF Truthy(x) THEN x ELSE y

Neg(x) == [n |-> -x.n, d |-> x.d]

Add(x, y) ==
  IF isNaN(x) \/ isNaN(y) THEN NaN
  ELSE IF x.d = 0 /\ y.d = 0 THEN (IF x.n = y.n THEN x ELSE NaN)
  ELSE IF x.d = 0 THEN x
  ELSE IF y.d = 0 THEN y
  ELSE Frac(x.n * y.d + y.n * x.d, x.d * y.d)

Mul(x, y) ==
  IF isNaN(x) \/ isNaN(y) THEN NaN
  ELSE IF x.d = 0 \/ y.d = 0
       THEN (IF Sign(x) * Sign(y) = 0 THEN NaN
             ELSE [n |-> Sign(x) * Sign(y), d |-> 0])
  ELSE Frac(x.n * y.n, x.d * y.d)

\* x / y of JavaScript: a finite non-zero number over 0 is +-Infinity, 0/0 and
\* Infinity/Infinity are NaN, a finite number over +-Infinity is 0.
Div(x, y) ==
  IF isNaN(x) \/ isNaN(y) THEN NaN
  ELSE IF x.d = 0 /\ y.d = 0 THEN NaN
  ELSE IF x.d = 0 THEN [n |-> x.n * (IF y.n < 0 THEN -1 ELSE 1), d |-> 0]
  ELSE IF y.d = 0 THEN Num(0)
  ELSE IF y.n = 0 THEN (IF x.n = 0 THEN NaN ELSE [n |-> Sign(x), d |-> 0])
  ELSE Frac(x.n * y.d, x.d * y.n)

\* Math.max / Math.min of two numbers (NaN if either is NaN).
MathMax(x, y) == IF isNaN(x) \/ isNaN(y) THEN NaN ELSE IF Gt(y, x) THEN y ELSE x

MathMin(x, y) == IF isNaN(x) \/ isNaN(y) THEN NaN ELSE IF Lt(y, x) THEN y ELSE x

\* Math.floor / Math.ceil / Math.round (round half up); identity on the specials.
MathFloor(x) == IF x.d = 0 THEN x ELSE Num(x.n \div x.d)

MathCeil(x) == IF x.d = 0 THEN x ELSE Num(-((-x.n) \div x.d))

MathRound(x) == IF x.d = 0 THEN x ELSE Num((2 * x.n + x.d) \div (2 * x.d))

RECURSIVE Pow10(_)
Pow10(k) == IF k = 0 THEN 1 ELSE 10 * Pow10(k - 1)

(***************************************************************************)
(* JavaScript strings                                                      *)
(***************************************************************************)
DigitChars == <<"0", "1", "2", "3", "4", "5", "6", "7", "8", "9">>

isDigit(c) == \E i \in 1..10 : DigitChars[i] = c

DigitVal(c) == (CHOOSE i \in 1..10 : DigitChars[i] = c) - 1

isSpace(c) == c = " "

RECURSIVE TrimStart(_)
TrimStart(s) == IF s # <<>> /\ isSpace(Head(s)) THEN TrimStart(Tail(s)) ELSE s

RECURSIVE TrimEnd(_)
TrimEnd(s) ==
  IF s # <<>> /\ isSpace(s[Len(s)]) THEN TrimEnd(SubSeq(s, 1, Len(s) - 1)) ELSE s

\* String.prototype.trim
trim(s) == TrimEnd(TrimStart(s))

\* String.prototype.includes for a one-character needle
includes(s, c) == \E i \in 1..Len(s) : s[i] = c

\* String.prototype.split for a one-character separator
RECURSIVE split(_, _)
split(s, c) ==
  IF ~includes(s, c) THEN <<s>>
  ELSE LET i == CHOOSE k \in 1..Len(s) : s[k] = c /\ \A j \in 1..(k - 1) : s[j] # c
       IN  <<SubSeq(s, 1, i - 1)>> \o split(SubSeq(s, i + 1, Len(s)), c)

StartsWith(s, p) == Len(s) >= Len(p) /\ SubSeq(s, 1, Len(p)) = p

\* The longest prefix of s made of decimal digits.
RECURSIVE LeadingDigits(_)
LeadingDigits(s) ==
  IF s # <<>> /\ isDigit(Head(s)) THEN <<Head(s)>> \o LeadingDigits(Tail(s)) ELSE <<>>

RECURSIVE DigitsValue(_)
DigitsValue(ds) ==
  IF ds = <<>> THEN 0
  ELSE 10 * DigitsValue(SubSeq(ds, 1, Len(ds) - 1)) + DigitVal(ds[Len(ds)])

RECURSIVE NatToString(_)
NatToString(i) ==
  IF i < 10 THEN <<DigitChars[i + 1]>>
  ELSE NatToString(i \div 10) \o <<DigitChars[(i % 10) + 1]>>

InfinityString == <<"I", "n", "f", "i", "n", "i", "t", "y">>

\* parseFloat: leading white space, a sign, then "Infinity" or the longest
\* decimal literal (digits, optionally a point and digits); NaN when there is
\* none.  Exponents are not parsed: no input of the model contains one.
parseFloat(s) ==
  LET t    == TrimStart(s)
      neg  == t # <<>> /\ Head(t) = "-"
      u    == IF t # <<>> /\ Head(t) \in {"-", "+"} THEN Tail(t) ELSE t
      ip   == LeadingDigits(u)
      r    == SubSeq(u, Len(ip) + 1, Len(u))
      fp   == IF r # <<>> /\ Head(r) = "." THEN LeadingDigits(Tail(r)) ELSE <<>>
      mag  == Frac(DigitsValue(ip) * Pow10(Len(fp)) + DigitsValue(fp), Pow10(Len(fp)))
  IN  IF StartsWith(u, InfinityString) THEN (IF neg THEN NegInfinity ELSE Infinity)
      ELSE IF ip = <<>> /\ fp = <<>> THEN NaN
      ELSE IF neg THEN Neg(mag) ELSE mag

\* parseInt(s, 10): leading white space, a sign, then the longest run of
\* digits; NaN when there is none.
parseInt(s) ==
  LET t   == TrimStart(s)
      neg == t # <<>> /\ Head(t) = "-"
      u   == IF t # <<>> /\ Head(t) \in {"-", "+"} THEN Tail(t) ELSE t
      ip  == LeadingDigits(u)
  IN  IF ip = <<>> THEN NaN
      ELSE IF neg THEN Num(-DigitsValue(ip)) ELSE Num(DigitsValue(ip))

\* Fraction digits printed by NumberToString for a value whose decimal
\* expansion does not terminate (never the case for a parsed decimal).
MaxFractionDigits == 6

\* The digits of rem/d after the decimal point, at most k of them.
RECURSIVE FractionDigits(_, _, _)
FractionDigits(rem, d, k) ==
  IF rem = 0 \/ k = 0 THEN <<>>
  ELSE <<DigitChars[((10 * rem) \div d) + 1]>> \o FractionDigits((10 * rem) % d, d, k - 1)

\* String(x) of a number: Number::toString for radix 10.
NumberToString(x) ==
  IF isNaN(x) THEN <<"N", "a", "N">>
  ELSE IF x.d = 0 THEN (IF x.n < 0 THEN <<"-">> ELSE <<>>) \o InfinityString
  ELSE LET a  == Abs(x.n)
           fd == FractionDigits(a % x.d, x.d, MaxFractionDigits)
       IN  (IF x.n < 0 THEN <<"-">> ELSE <<>>)
           \o NatToString(a \div x.d)
           \o (IF fd = <<>> THEN <<>> ELSE <<".">> \o fd)


\* A handler argument of type string | number.
Str(s) == [t |-> "string", s |-> s, v |-> NaN]

NumberValue(x) == [t |-> "number", s |-> <<>>, v |-> x]

\* String(value)
String(value) == IF value.t = "number" THEN NumberToString(value.v) ELSE value.s

(***************************************************************************)
(* utils: formatNumber and CONFIG (App.tsx 149-164)                        *)
(***************************************************************************)
\* Digits with a "," before every group of three, as the en-PH locale prints.
RECURSIVE GroupThousands(_)
GroupThousands(ds) ==
  IF Len(ds) <= 3 THEN ds
  ELSE GroupThousands(SubSeq(ds, 1, Len(ds) - 3)) \o <<",">> \o SubSeq(ds, Len(ds) - 2, Len(ds))

RECURSIVE StripTrailingZeros(_)
StripTrailingZeros(ds) ==
  IF ds # <<>> /\ ds[Len(ds)] = "0" THEN StripTrailingZeros(SubSeq(ds, 1, Len(ds) - 1)) ELSE ds

RECURSIVE PadLeft(_, _)
PadLeft(ds, k) == IF Len(ds) >= k THEN ds ELSE PadLeft(<<"0">> \o ds, k)

\* The one character U+221E that toLocaleString prints for Infinity.
InfinitySign == "oo"

\* Number.prototype.toLocaleString('en-PH', {minimumFractionDigits: 0,
\* maximumFractionDigits: decimals}): grouped integer digits, at most
\* `decimals` fraction digits (half away from zero), no trailing zeros.
toLocaleString(x, decimals) ==
  IF isNaN(x) THEN <<"N", "a", "N">>
  ELSE IF x.d = 0 THEN (IF x.n < 0 THEN <<"-">> ELSE <<>>) \o <<InfinitySign>>
  ELSE LET f  == Pow10(decimals)
           q  == (2 * Abs(x.n) * f + x.d) \div (2 * x.d)
           fd == StripTrailingZeros(PadLeft(NatToString(q % f), decimals))
       IN  (IF x.n < 0 /\ q # 0 THEN <<"-">> ELSE <<>>)
           \o GroupThousands(NatToString(q \div f))
           \o (IF decimals = 0 \/ fd = <<>> THEN <<>> ELSE <<".">> \o fd)

\* formatNumber(num, decimals).  Number.EPSILON (2^-52) only moves values that
\* lie within 2^-52 below a rounding tie; the model rounds exactly.
formatNumber(num, decimals) ==
  IF isNaN(num) THEN <<"0">>
  ELSE LET factor  == Num(Pow10(decimals))
           rounded == Div(MathRound(Mul(num, factor)), factor)
       IN  toLocaleString(rounded, decimals)

\* Mutant: the 4.33 weeks per month of the schedule forms instead of 52/12.
WeeksPerMonth433 == Frac(433, 100)

\* CONFIG.NUMBER_OF_WEEKS_PER_MONTH = 52/12
NUMBER_OF_WEEKS_PER_MONTH == Frac(52, 12)

(***************************************************************************)
(* annualIncome.tsx: helpers                                               *)
(***************************************************************************)
FrequencyType == {"perMonth", "perWeek", "everyXMonths", "everyXWeeks", "once", "perYear"}

\* useState<number | null>(null): row ids are positive, 0 stands for null.
null == 0

\* Date.now() at construction: the id of the first row.
FirstId == 1

initialSpeciesData ==
  [ name            |-> <<>>,
    frequencyType   |-> "perYear",
    frequencyValue  |-> Num(2),
    everyXValue     |-> Num(1),
    monthsMarked    |-> Num(12),
    freshVolume     |-> Num(0),
    freshPrice      |-> Num(0),
    ratioInput      |-> <<"5">>,
    freshToDryRatio |-> Num(5),
    driedVolume     |-> Num(0),
    driedPrice      |-> Num(0),
    consumedVolume  |-> Num(0),
    processedVolume |-> Num(0) ]

\* { ...initialSpeciesData, id, name }
NewSpecies(id, name) == [f \in DOMAIN initialSpeciesData \cup {"id"} |->
  IF f = "id" THEN id ELSE IF f = "name" THEN name ELSE initialSpeciesData[f]]

\* parseRatio (lines 58-76)
parseRatio(input) ==
  LET trimmed   == trim(input)
      parts     == split(trimmed, ":")
      freshPart == parseFloat(parts[1])
      dryPart   == parseFloat(parts[2])
      num       == parseFloat(trimmed)
  IN  IF includes(trimmed, ":")
      THEN IF /\ Len(parts) = 2
              /\ ~isNaN(freshPart) /\ ~isNaN(dryPart)
              /\ Gt(dryPart, Num(0)) /\ Ge(freshPart, Num(0))
           THEN Div(freshPart, dryPart)
           ELSE Num(1)
      ELSE IF ~isNaN(num) /\ Gt(num, Num(0)) THEN num ELSE Num(1)

\* parseRatio of the second version (lines 799-817): the same, but Infinity
\* is returned where the first version returns 1.
parseRatio2(input) ==
  LET trimmed   == trim(input)
      parts     == split(trimmed, ":")
      freshPart == parseFloat(parts[1])
      dryPart   == parseFloat(parts[2])
      num       == parseFloat(trimmed)
  IN  IF includes(trimmed, ":")
      THEN IF /\ Len(parts) = 2
              /\ ~isNaN(freshPart) /\ ~isNaN(dryPart)
              /\ Gt(dryPart, Num(0)) /\ Ge(freshPart, Num(0))
           THEN Div(freshPart, dryPart)
           ELSE Infinity
      ELSE IF ~isNaN(num) /\ Gt(num, Num(0)) THEN num ELSE Infinity

\* The clamped arguments of calculateAnnualSales (lines 83-86).
validMonthsOf(species) == MathMax(Num(1), MathMin(Num(12), OrElse(species.monthsMarked, Num(12))))

valOf(species) == MathMax(Num(1), OrElse(species.frequencyValue, Num(1)))

xValOf(species) == MathMax(Num(1), OrElse(species.everyXValue, Num(1)))

\* Mutant: 52 weeks spread over the active months only once (no val factor).
SalesPerWeekNoVal(val, validMonths) == Mul(validMonths, Frac(52, 12))

\* case 'perWeek' (lines 96-100)
SalesPerWeek(val, validMonths) == Mul(Mul(val, validMonths), NUMBER_OF_WEEKS_PER_MONTH)

\* Mutant: Math.ceil, as the schedule forms count, instead of Math.floor.
SalesEveryXMonthsCeil(validMonths, xVal) ==
  IF Le(xVal, Num(0)) THEN Num(0)
  ELSE IF Ge(validMonths, xVal) THEN MathCeil(Div(validMonths, xVal)) ELSE Num(0)

\* case 'everyXMonths' (lines 101-106)
SalesEveryXMonths(validMonths, xVal) ==
  IF Le(xVal, Num(0)) THEN Num(0)
  ELSE IF Ge(validMonths, xVal) THEN MathFloor(Div(validMonths, xVal)) ELSE Num(0)

\* case 'everyXWeeks' (lines 107-113)
SalesEveryXWeeks(validMonths, xVal) ==
  LET totalWeeksInMarkedMonths == Mul(validMonths, NUMBER_OF_WEEKS_PER_MONTH)
  IN  IF Le(xVal, Num(0)) THEN Num(0)
      ELSE IF Ge(totalWeeksInMarkedMonths, xVal)
           THEN MathFloor(Div(totalWeeksInMarkedMonths, xVal))
           ELSE Num(0)

\* Mutant: 'once' falls through to 'perYear' (a missing return).
SalesSimpleFallThrough(frequencyType, val, validMonths) ==
  CASE frequencyType = "once"     -> val
    [] frequencyType = "perYear"  -> val
    [] frequencyType = "perMonth" -> Mul(val, validMonths)
    [] OTHER                      -> Num(0)

\* cases 'once', 'perYear', 'perMonth' and default (lines 88-95, 114-115)
SalesSimple(frequencyType, val, validMonths) ==
  CASE frequencyType = "once"     -> Num(1)
    [] frequencyType = "perYear"  -> val
    [] frequencyType = "perMonth" -> Mul(val, validMonths)
    [] OTHER                      -> Num(0)

calculateAnnualSales(species) ==
  LET validMonths == validMonthsOf(species)
      val         == valOf(species)
      xVal        == xValOf(species)
  IN  CASE species.frequencyType = "perWeek"      -> SalesPerWeek(val, validMonths)
        [] species.frequencyType = "everyXMonths" -> SalesEveryXMonths(validMonths, xVal)
        [] species.frequencyType = "everyXWeeks"  -> SalesEveryXWeeks(validMonths, xVal)
        [] OTHER -> SalesSimple(species.frequencyType, val, validMonths)

\* The second version of the file (lines 819-837): no xVal <= 0 guard.
calculateAnnualSales2(species) ==
  LET validMonths == validMonthsOf(species)
      val         == valOf(species)
      xVal        == xValOf(species)
      weeksPerMonth == NUMBER_OF_WEEKS_PER_MONTH
      totalWeeksInMarkedMonths == Mul(validMonths, weeksPerMonth)
  IN  CASE species.frequencyType = "once"         -> Num(1)
        [] species.frequencyType = "perYear"      -> val
        [] species.frequencyType = "perMonth"     -> Mul(val, validMonths)
        [] species.frequencyType = "perWeek"      -> Mul(Mul(val, validMonths), weeksPerMonth)
        [] species.frequencyType = "everyXMonths" ->
             IF Ge(validMonths, xVal) THEN MathFloor(Div(validMonths, xVal)) ELSE Num(0)
        [] species.frequencyType = "everyXWeeks"  ->
             IF Ge(totalWeeksInMarkedMonths, xVal)
             THEN MathFloor(Div(totalWeeksInMarkedMonths, xVal))
             ELSE Num(0)
        [] OTHER -> Num(0)


(***************************************************************************)
(* The state, and annualIncome.tsx: SeaweedFarmingCalculator               *)
(***************************************************************************)
VARIABLES
  speciesData,        \* annualIncome.tsx: useState<SpeciesData[]>       (line 140)
  isModalOpen,        \* annualIncome.tsx: useState(false)               (line 145)
  editingSpeciesId,   \* annualIncome.tsx: useState<number | null>(null) (line 146)
  modalFrequency,     \* annualIncome.tsx: the draft edited in the modal (line 148)
  schedule,           \* part_000: the useState hooks of SeaweedSchedule (lines 12-22)
  salesArg,           \* an argument of calculateAnnualSales
  salesResult,        \* [done, value, value2]: the results of both versions
  ratioArg,           \* an argument of parseRatio, as it was put together
  ratioResult,        \* [done, value, value2]: the results of both versions
  now,                \* the clock: the last value Date.now() returned
  members,            \* householdIncome.tsx: useState<IncomeSource[][]> (line 129)
  activeMemberIndex,  \* householdIncome.tsx: useState(0)               (line 130)
  items,              \* part_002: useState<InvestmentItem[]>            (line 53)
  newItem,            \* part_002: the draft of the add row              (line 80)
  isAddingItem,       \* part_002: useState(false)                       (line 87)
  depArg,             \* a list of items given to processedItems
  depResult,          \* [done, processedItems, totalDepreciation]
  inputItems,         \* fisheriestForm.tsx, SeaweedInputsForm: items     (line 379)
  lastOp              \* history: the handler that ran last, its row id and field

annualVars == <<speciesData, isModalOpen, editingSpeciesId, modalFrequency>>

scheduleVars == <<schedule>>

salesVars == <<salesArg, salesResult>>

parseVars == <<ratioArg, ratioResult>>

householdVars == <<members, activeMemberIndex>>

\* The state of the forms other than the annual-income calculator and the
\* schedule.
investmentVars == <<items, newItem, isAddingItem>>

depVars == <<depArg, depResult>>

inputsVars == <<inputItems>>

formVars == <<householdVars, investmentVars, depVars, inputsVars>>

vars == <<annualVars, scheduleVars, salesVars, parseVars, formVars, now, lastOp>>

\* What the handlers of one component leave alone.
notAnnual == <<scheduleVars, salesVars, parseVars, formVars, now>>

notSchedule == <<annualVars, salesVars, parseVars, formVars, now>>

notSales == <<annualVars, scheduleVars, parseVars, formVars, now>>

notParse == <<annualVars, scheduleVars, salesVars, formVars, now>>

notForms == <<annualVars, scheduleVars, salesVars, parseVars, now>>

notHousehold == <<notForms, investmentVars, depVars, inputsVars>>

notInvestment == <<notForms, householdVars, depVars, inputsVars>>

notInputs == <<notForms, householdVars, investmentVars, depVars>>

initialModalFrequency ==
  [ frequencyType  |-> "perYear",
    frequencyValue |-> Num(2),
    everyXValue    |-> Num(1),
    monthsMarked   |-> Num(12) ]

KappaphycusName == <<"K">>

\* The first row's id is Date.now() at the time the component is mounted.
AnnualIncomeInit ==
  /\ now = FirstId
  /\ speciesData = <<NewSpecies(FirstId, KappaphycusName)>>
  /\ isModalOpen = FALSE
  /\ editingSpeciesId = null
  /\ modalFrequency = initialModalFrequency

Op(name, id, field) == [name |-> name, id |-> id, field |-> field]

NoOp == Op("init", null, "")

\* parseInt(String(value), 10) || 0   and   parseFloat(String(value)) || 0
IntOrZero(value) == OrElse(parseInt(String(value)), Num(0))

FloatOrZero(value) == OrElse(parseFloat(String(value)), Num(0))

\* Mutant: the parsed number is stored without the clamps of lines 191-196.
UpdateFrequencyNumberNoClamp(species, field, value) ==
  [species EXCEPT ![field] = IntOrZero(value)]

\* case 'frequencyValue' | 'everyXValue' | 'monthsMarked' (lines 187-197)
UpdateFrequencyNumber(species, field, value) ==
  LET parsed == IntOrZero(value)
  IN  [species EXCEPT ![field] =
         IF field = "monthsMarked" THEN MathMax(Num(1), MathMin(Num(12), parsed))
         ELSE MathMax(Num(1), parsed)]

\* Mutant: the fresh volume is stored but the dried volume is not recomputed.
UpdateFreshVolumeKeepsDried(species, value) ==
  [species EXCEPT !.freshVolume = FloatOrZero(value)]

\* Mutant: the fresh volume is divided by the ratio without the guard.
UpdateFreshVolumeNoGuard(species, value) ==
  LET numValue == FloatOrZero(value)
  IN  [species EXCEPT
         !.freshVolume = numValue,
         !.driedVolume = Div(numValue, species.freshToDryRatio)]

\* case 'freshVolume' (lines 199-205)
UpdateFreshVolume(species, value) ==
  LET numValue == FloatOrZero(value)
  IN  [species EXCEPT
         !.freshVolume = numValue,
         !.driedVolume =
           IF Gt(species.freshToDryRatio, Num(0)) /\ species.freshToDryRatio # Infinity
           THEN Div(numValue, species.freshToDryRatio)
           ELSE Num(0)]

\* Mutant: the dried volume is the fresh volume times the ratio.
UpdateRatioInputMultiplies(species, value) ==
  LET newNumericRatio == parseRatio(String(value))
  IN  [species EXCEPT
         !.ratioInput = String(value),
         !.freshToDryRatio = newNumericRatio,
         !.driedVolume =
           IF Gt(newNumericRatio, Num(0)) /\ newNumericRatio # Infinity
           THEN Mul(species.freshVolume, newNumericRatio)
           ELSE Num(0)]

\* Mutant: the ratio is stored but the dried volume is not recomputed.
UpdateRatioInputStaleDried(species, value) ==
  [species EXCEPT
     !.ratioInput = String(value),
     !.freshToDryRatio = parseRatio(String(value))]

\* case 'ratioInput' (lines 207-214)
UpdateRatioInput(species, value) ==
  LET newNumericRatio == parseRatio(String(value))
  IN  [species EXCEPT
         !.ratioInput = String(value),
         !.freshToDryRatio = newNumericRatio,
         !.driedVolume =
           IF Gt(newNumericRatio, Num(0)) /\ newNumericRatio # Infinity
           THEN Div(species.freshVolume, newNumericRatio)
           ELSE Num(0)]

\* Mutant: the ratio is computed upside down (dried over fresh).
UpdateDriedVolumeInverted(species, value) ==
  LET driedNumValue   == FloatOrZero(value)
      calculatedRatio == Div(driedNumValue, species.freshVolume)
  IN  IF Gt(driedNumValue, Num(0)) /\ Gt(species.freshVolume, Num(0))
      THEN [species EXCEPT
              !.driedVolume = driedNumValue,
              !.freshToDryRatio = calculatedRatio,
              !.ratioInput = formatNumber(calculatedRatio, 1) \o <<":", "1">>]
      ELSE IF Gt(driedNumValue, Num(0)) /\ Le(species.freshVolume, Num(0))
      THEN [species EXCEPT
              !.driedVolume = driedNumValue,
              !.freshToDryRatio = Infinity]
      ELSE [species EXCEPT
              !.driedVolume = driedNumValue,
              !.freshToDryRatio = parseRatio(species.ratioInput)]

\* case 'driedVolume' (lines 216-235)
UpdateDriedVolume(species, value) ==
  LET driedNumValue   == FloatOrZero(value)
      calculatedRatio == Div(species.freshVolume, driedNumValue)
  IN  IF Gt(driedNumValue, Num(0)) /\ Gt(species.freshVolume, Num(0))
      THEN [species EXCEPT
              !.driedVolume = driedNumValue,
              !.freshToDryRatio = calculatedRatio,
              !.ratioInput = formatNumber(calculatedRatio, 1) \o <<":", "1">>]
      ELSE IF Gt(driedNumValue, Num(0)) /\ Le(species.freshVolume, Num(0))
      THEN [species EXCEPT
              !.driedVolume = driedNumValue,
              !.freshToDryRatio = Infinity]
      ELSE IF Le(driedNumValue, Num(0))
      THEN [species EXCEPT
              !.driedVolume = driedNumValue,
              !.freshToDryRatio = parseRatio(species.ratioInput)]
      ELSE [species EXCEPT !.driedVolume = driedNumValue]

FrequencyNumberFields == {"frequencyValue", "everyXValue", "monthsMarked"}

PlainNumberFields == {"freshPrice", "driedPrice", "consumedVolume", "processedVolume"}

\* The switch of updateSpeciesField on one row (lines 181-249).  A select's
\* value is stored as it is ('value as FrequencyType' is a cast).
UpdatedSpecies(species, field, value) ==
  CASE field = "frequencyType"         -> [species EXCEPT !.frequencyType = value.s]
    [] field \in FrequencyNumberFields -> UpdateFrequencyNumber(species, field, value)
    [] field = "freshVolume"           -> UpdateFreshVolume(species, value)
    [] field = "ratioInput"            -> UpdateRatioInput(species, value)
    [] field = "driedVolume"           -> UpdateDriedVolume(species, value)
    [] field \in PlainNumberFields     -> [species EXCEPT ![field] = FloatOrZero(value)]
    [] OTHER                           -> [species EXCEPT ![field] = String(value)]

\* Mutant: the update is applied to every row, whatever its id.
updateSpeciesFieldEveryRow(currentData, idToUpdate, field, value) ==
  [i \in 1..Len(currentData) |-> UpdatedSpecies(currentData[i], field, value)]

\* setSpeciesData(currentData => currentData.map(...)) (lines 174-252)
updateSpeciesField(currentData, idToUpdate, field, value) ==
  [i \in 1..Len(currentData) |->
     IF currentData[i].id # idToUpdate THEN currentData[i]
     ELSE UpdatedSpecies(currentData[i], field, value)]

\* handleModalFrequencyChange's updater (lines 278-297)
UpdatedModalFrequency(prev, field, value) ==
  IF field = "frequencyType" THEN [prev EXCEPT !.frequencyType = value.s]
  ELSE LET numValue == IntOrZero(value)
           months   == IF field = "monthsMarked"
                       THEN MathMax(Num(1), MathMin(Num(12), numValue)) ELSE numValue
           clamped  == IF field \in {"frequencyValue", "everyXValue"}
                       THEN MathMax(Num(1), months) ELSE months
       IN  [prev EXCEPT ![field] = clamped]

\* calculateTotals (lines 312-337), run on every render: the sales per year
\* of each row.
salesPerYear(i) == calculateAnnualSales(speciesData[i])

(***************************************************************************)
(* annualIncome.tsx: the handlers                                          *)
(***************************************************************************)
UpdateSpeciesField(id, field, value) ==
  /\ speciesData' = updateSpeciesField(speciesData, id, field, value)
  /\ lastOp' = Op("updateSpeciesField", id, field)
  /\ UNCHANGED <<isModalOpen, editingSpeciesId, modalFrequency, notAnnual>>

\* openFrequencyModal (lines 255-267)
OpenFrequencyModal(id) ==
  /\ \E i \in 1..Len(speciesData) : speciesData[i].id = id
  /\ LET speciesToEdit ==
           speciesData[CHOOSE i \in 1..Len(speciesData) :
                         /\ speciesData[i].id = id
                         /\ \A j \in 1..(i - 1) : speciesData[j].id # id]
     IN  modalFrequency' =
           [ frequencyType  |-> speciesToEdit.frequencyType,
             frequencyValue |-> speciesToEdit.frequencyValue,
             everyXValue    |-> speciesToEdit.everyXValue,
             monthsMarked   |-> speciesToEdit.monthsMarked ]
  /\ editingSpeciesId' = id
  /\ isModalOpen' = TRUE
  /\ lastOp' = Op("openFrequencyModal", id, "")
  /\ UNCHANGED <<speciesData, notAnnual>>

\* The modal is rendered (line 474).
ModalRendered == isModalOpen /\ editingSpeciesId # null

\* closeFrequencyModal (lines 270-275), from Cancel, the Escape key (350-365)
\* or a click on the backdrop (477-482)
CloseFrequencyModal ==
  /\ ModalRendered
  /\ isModalOpen' = FALSE
  /\ editingSpeciesId' = null
  /\ lastOp' = Op("closeFrequencyModal", null, "")
  /\ UNCHANGED <<speciesData, modalFrequency, notAnnual>>

\* Mutant: an edit in the modal is written through to the row being edited.
HandleModalFrequencyChangeWritesRow(field, value) ==
  /\ ModalRendered
  /\ modalFrequency' = UpdatedModalFrequency(modalFrequency, field, value)
  /\ speciesData' = updateSpeciesField(speciesData, editingSpeciesId, field, value)
  /\ lastOp' = Op("handleModalFrequencyChange", null, field)
  /\ UNCHANGED <<isModalOpen, editingSpeciesId, notAnnual>>

\* handleModalFrequencyChange (lines 277-298), from the modal's inputs
HandleModalFrequencyChange(field, value) ==
  /\ ModalRendered
  /\ modalFrequency' = UpdatedModalFrequency(modalFrequency, field, value)
  /\ lastOp' = Op("handleModalFrequencyChange", null, field)
  /\ UNCHANGED <<speciesData, isModalOpen, editingSpeciesId, notAnnual>>

\* React applies the updater functions queued by setSpeciesData in one event
\* handler in the order they were queued, each to the result of the one before.
RECURSIVE ApplyQueuedUpdates(_, _, _)
ApplyQueuedUpdates(currentData, idToUpdate, queue) ==
  IF queue = <<>> THEN currentData
  ELSE ApplyQueuedUpdates(
         updateSpeciesField(currentData, idToUpdate, Head(queue).field, Head(queue).value),
         idToUpdate, Tail(queue))

\* saveFrequencyChanges (lines 300-308): four queued updates, then close
SaveFrequencyChanges ==
  /\ ModalRendered
  /\ speciesData' =
       IF editingSpeciesId # null
       THEN ApplyQueuedUpdates(speciesData, editingSpeciesId,
              << [field |-> "frequencyType",  value |-> Str(modalFrequency.frequencyType)],
                 [field |-> "frequencyValue", value |-> NumberValue(modalFrequency.frequencyValue)],
                 [field |-> "everyXValue",    value |-> NumberValue(modalFrequency.everyXValue)],
                 [field |-> "monthsMarked",   value |-> NumberValue(modalFrequency.monthsMarked)] >>)
       ELSE speciesData
  /\ isModalOpen' = FALSE
  /\ editingSpeciesId' = null
  /\ lastOp' = Op("saveFrequencyChanges", null, "")
  /\ UNCHANGED <<modalFrequency, notAnnual>>


(***************************************************************************)
(* seaweedSchedule (src/unnamed/part_000): SeaweedSchedule                 *)
(***************************************************************************)
\* Number(s), the unary plus of '+e.target.value': 0 for an empty or blank
\* string, the value of a string that is a decimal literal as a whole, else NaN.
ToNumber(s) ==
  LET t  == trim(s)
      u  == IF t # <<>> /\ Head(t) \in {"-", "+"} THEN Tail(t) ELSE t
      ip == LeadingDigits(u)
      r  == SubSeq(u, Len(ip) + 1, Len(u))
      fp == IF r # <<>> /\ Head(r) = "." THEN LeadingDigits(Tail(r)) ELSE <<>>
  IN  IF t = <<>> THEN Num(0)
      ELSE IF u = InfinityString THEN parseFloat(t)
      ELSE IF /\ ip # <<>> \/ fp # <<>>
              /\ r = <<>> \/ (Head(r) = "." /\ Len(fp) = Len(r) - 1)
           THEN parseFloat(t)
      ELSE NaN

\* The weeks per month of this file (line 4): 4.33
SCHEDULE_WEEKS_PER_MONTH == Frac(433, 100)

ScheduleFrequencyType == {"perMonth", "perWeek", "everyXMonths", "everyXWeeks", "once"}

ScheduleInit ==
  schedule =
    [ activityName      |-> <<>>,
      monthsMarked      |-> Num(6),
      frequencyType     |-> "perMonth",
      frequencyValue    |-> Num(1),
      everyXValue       |-> Num(2),
      timesPerSixMonths |-> Num(0),
      useHourRange      |-> FALSE,
      hoursMin          |-> Num(3),
      hoursMax          |-> Num(3) ]

\* totalTimes (lines 24-36), computed on every render
totalTimes ==
  CASE schedule.frequencyType = "once"     -> Num(1)
    [] schedule.frequencyType = "perMonth" -> Mul(schedule.frequencyValue, schedule.monthsMarked)
    [] schedule.frequencyType = "perWeek"  ->
         Mul(Mul(schedule.frequencyValue, schedule.monthsMarked), SCHEDULE_WEEKS_PER_MONTH)
    [] schedule.frequencyType = "everyXMonths" ->
         MathCeil(Div(schedule.monthsMarked, schedule.everyXValue))
    [] schedule.frequencyType = "everyXWeeks" ->
         LET totalWeeks == Mul(schedule.monthsMarked, SCHEDULE_WEEKS_PER_MONTH)
         IN  MathCeil(Div(totalWeeks, schedule.everyXValue))
    [] OTHER -> Num(0)

\* totalHoursMin, totalHoursMax (lines 38-39)
totalHoursMin == Mul(totalTimes, schedule.hoursMin)

totalHoursMax == Mul(totalTimes, schedule.hoursMax)

\* The inputs that are rendered (lines 88, 104, 152)
FrequencyNumberShown == schedule.frequencyType \in {"perMonth", "perWeek"}

IntervalShown == schedule.frequencyType \in {"everyXMonths", "everyXWeeks"}

SetScheduleField(field, v) ==
  /\ schedule' = [schedule EXCEPT ![field] = v]
  /\ lastOp' = Op("schedule", null, field)
  /\ UNCHANGED notSchedule

\* onChange handlers of SeaweedSchedule (lines 65, 77, 97, 113, 132, 146)
SetActivityName(s) == SetScheduleField("activityName", s)

SetFrequencyType(t) == SetScheduleField("frequencyType", t)

SetFrequencyValue(s) == FrequencyNumberShown /\ SetScheduleField("frequencyValue", ToNumber(s))

SetEveryXValue(s) == IntervalShown /\ SetScheduleField("everyXValue", ToNumber(s))

SetMonthsMarked(s) == SetScheduleField("monthsMarked", ToNumber(s))

SetTimesPerSixMonths(s) == SetScheduleField("timesPerSixMonths", ToNumber(s))

\* Min Hours / Max Hours when the range is on (lines 162, 175)
SetHoursMin(s) == schedule.useHourRange /\ SetScheduleField("hoursMin", ToNumber(s))

SetHoursMax(s) == schedule.useHourRange /\ SetScheduleField("hoursMax", ToNumber(s))

\* Hours per Activity when the range is off (lines 190-193)
SetHours(s) ==
  /\ ~schedule.useHourRange
  /\ schedule' = [schedule EXCEPT !.hoursMin = ToNumber(s), !.hoursMax = ToNumber(s)]
  /\ lastOp' = Op("schedule", null, "hours")
  /\ UNCHANGED notSchedule

\* The Min-Max checkbox (line 204)
ToggleHourRange == SetScheduleField("useHourRange", ~schedule.useHourRange)

(***************************************************************************)
(* calculateAnnualSales as a function of its argument                      *)
(***************************************************************************)
NoSalesArg ==
  [ frequencyType  |-> "perYear",
    frequencyValue |-> Num(2),
    everyXValue    |-> Num(1),
    monthsMarked   |-> Num(12) ]

NoSalesResult == [done |-> FALSE, value |-> Num(0), value2 |-> Num(0)]

One == [text |-> <<"1">>, numeric |-> TRUE, value |-> Num(1)]

\* Bare number texts with the number each is, and whether it is one.
NumberTexts ==
  { One,
    [text |-> <<"7">>,           numeric |-> TRUE,  value |-> Num(7)],
    [text |-> <<"0">>,           numeric |-> TRUE,  value |-> Num(0)],
    [text |-> <<"2", ".", "5">>, numeric |-> TRUE,  value |-> Frac(5, 2)],
    [text |-> <<"-", "2">>,      numeric |-> TRUE,  value |-> Num(0 - 2)],
    [text |-> InfinityString,    numeric |-> TRUE,  value |-> Infinity],
    [text |-> <<"a", "b", "c">>, numeric |-> FALSE, value |-> NaN],
    [text |-> <<>>,              numeric |-> FALSE, value |-> NaN] }

NoRatioArg == [colons |-> 0, a |-> One, b |-> One, padded |-> FALSE]

NoRatioResult == [done |-> FALSE, value |-> Num(0), value2 |-> Num(0)]

ParseIdle == ratioArg = NoRatioArg /\ ratioResult = NoRatioResult

(***************************************************************************)
(* householdIncome.tsx: HouseholdIncomeTable, the state                    *)
(***************************************************************************)
\* emptySource (lines 17-25); numberOfDaysPerMonth is undefined there (CONFIG
\* has no NUMBER_OF_DAYS_PER_MONTH) and is left out of the record.
emptySource ==
  [ isSeaweed       |-> TRUE,
    unit            |-> "month",
    numberOfTimes   |-> Num(1),
    singleValueMode |-> TRUE,
    amountMin       |-> Num(0),
    amountMax       |-> Num(0) ]

newMemberSources == <<emptySource, emptySource, emptySource>>

\* useState([newMemberSources()]), useState(0) (lines 129-130)
HouseholdInit ==
  /\ members = <<newMemberSources>>
  /\ activeMemberIndex = 0

(***************************************************************************)
(* InvestmentItemsForm (src/unnamed/part_002): the state                   *)
(***************************************************************************)
\* new Date().getFullYear() (line 5), at the time of writing
CURRENT_YEAR == 2026

DEPRECIATION_AGE_THRESHOLD == 3

\* yearPurchased: number | '' (line 11)
EmptyYear == Str(<<>>)

Year(y) == NumberValue(Num(y))

InvestmentItem(id, name, yearPurchased, costWhenBought, costNow, usefulLife) ==
  [ id             |-> id,
    name           |-> name,
    yearPurchased  |-> yearPurchased,
    costWhenBought |-> Num(costWhenBought),
    costNow        |-> Num(costNow),
    usefulLife     |-> Num(usefulLife) ]

\* The initial items (lines 53-78)
initialItems ==
  << InvestmentItem(<<"1">>, "Boat", Year(2020), 25000, 20000, 5),
     InvestmentItem(<<"2">>, "Papag", Year(2021), 500, 0, 1),
     InvestmentItem(<<"3">>, "Trapal/tulda", Year(2023), 4500, 0, 2) >>

\* The empty draft (lines 80-86 and 169-175)
emptyNewItem ==
  [ name           |-> "",
    yearPurchased  |-> EmptyYear,
    costWhenBought |-> Num(0),
    costNow        |-> Num(0),
    usefulLife     |-> Num(0) ]

InvestmentInit ==
  /\ items = initialItems
  /\ newItem = emptyNewItem
  /\ isAddingItem = FALSE

NoDepResult == [done |-> FALSE, processedItems |-> <<>>, totalDepreciation |-> Num(0)]

DepreciationIdle == depArg = <<>> /\ depResult = NoDepResult

(***************************************************************************)
(* SeaweedInputsForm (fisheriestForm.tsx): the state                       *)
(***************************************************************************)
\* defaultItem (lines 266-278); the name, which no computation reads, is left
\* out.
defaultItem ==
  [ qtyRange   |-> FALSE,
    qtyMin     |-> Num(1),
    qtyMax     |-> Num(1),
    freqRange  |-> FALSE,
    freqMin    |-> Num(1),
    freqMax    |-> Num(1),
    freqUnit   |-> "year",
    priceRange |-> FALSE,
    priceMin   |-> Num(0),
    priceMax   |-> Num(0) ]

\* useState([defaultItem()]) (line 379)
InputsInit == inputItems = <<defaultItem>>

\* The forms as they are mounted.
FormsInit == HouseholdInit /\ InvestmentInit /\ DepreciationIdle /\ InputsInit

SalesIdle == salesArg = NoSalesArg /\ salesResult = NoSalesResult


\* Bounds of the arguments: each numeric field ranges over MinArg..Max*Arg, so
\* that out-of-range values (0, negatives, 13 months) reach the clamps.
MaxFrequencyArg == 3

MaxEveryXArg == 53

MaxMonthsArg == 13

MinArg == 0 - 1

SalesArgs ==
  [ frequencyType  : FrequencyType,
    frequencyValue : {Num(i) : i \in MinArg..MaxFrequencyArg},
    everyXValue    : {Num(i) : i \in MinArg..MaxEveryXArg},
    monthsMarked   : {Num(i) : i \in MinArg..MaxMonthsArg} ]

InitSales ==
  /\ AnnualIncomeInit
  /\ ScheduleInit
  /\ salesArg \in SalesArgs
  /\ salesResult = NoSalesResult
  /\ ParseIdle
  /\ FormsInit
  /\ lastOp = NoOp

CalculateAnnualSales ==
  /\ ~salesResult.done
  /\ salesResult' = [ done   |-> TRUE,
                      value  |-> calculateAnnualSales(salesArg),
                      value2 |-> calculateAnnualSales2(salesArg) ]
  /\ lastOp' = Op("calculateAnnualSales", null, "")
  /\ UNCHANGED <<salesArg, notSales>>

NextSales == CalculateAnnualSales

SpecSales == InitSales /\ [][NextSales]_vars

\* The argument as integers, and the claims' preconditions.
ArgMonths == salesArg.monthsMarked.n

ArgEveryX == salesArg.everyXValue.n

ArgValue == salesArg.frequencyValue.n

SalesDone(type) == salesResult.done /\ salesArg.frequencyType = type

\* C3: for everyXMonths, with activeMonths in 1..12 and everyX >= 1, the result
\* of calculateAnnualSales (both versions) is floor(activeMonths / everyX) when
\* activeMonths >= everyX and 0 otherwise; everyX=2, activeMonths=6 gives 3 and
\* everyX=4, activeMonths=3 gives 0.
C3_EveryXMonthsFloor ==
  SalesDone("everyXMonths") /\ ArgMonths \in 1..12 /\ ArgEveryX >= 1
    => LET expected == IF ArgMonths >= ArgEveryX THEN ArgMonths \div ArgEveryX ELSE 0
       IN  /\ salesResult.value = Num(expected)
           /\ salesResult.value2 = Num(expected)
           /\ (ArgEveryX = 2 /\ ArgMonths = 6 => salesResult.value = Num(3))
           /\ (ArgEveryX = 4 /\ ArgMonths = 3 => salesResult.value = Num(0))

C3_Witness ==
  /\ SalesDone("everyXMonths") /\ ArgEveryX = 2 /\ ArgMonths = 6
  /\ salesResult.value = Num(3)

\* C4: for everyXWeeks, with W = 52/12, activeMonths in 1..12 and everyX >= 1,
\* the result is floor(activeMonths * W / everyX) when activeMonths * W >= everyX
\* and 0 otherwise (stated on integers: activeMonths * 52 against everyX * 12).
C4_EveryXWeeksFloor ==
  SalesDone("everyXWeeks") /\ ArgMonths \in 1..12 /\ ArgEveryX >= 1
    => LET expected == IF ArgMonths * 52 >= ArgEveryX * 12
                       THEN (ArgMonths * 52) \div (ArgEveryX * 12) ELSE 0
       IN  /\ salesResult.value = Num(expected)
           /\ salesResult.value2 = Num(expected)

\* 3 months are exactly 13 weeks: an interval of 13 weeks fits once.
C4_Witness ==
  /\ SalesDone("everyXWeeks") /\ ArgEveryX = 13 /\ ArgMonths = 3
  /\ salesResult.value = Num(1)

\* C5: with activeMonths in 1..12 and value >= 1 the result is exactly 1 for
\* once (whatever activeMonths, value and everyX are), value for perYear and
\* value * activeMonths for perMonth (value=2, activeMonths=6 gives 12); the
\* result is >= 0 for every frequency type and every argument.
C5_SimpleTypes ==
  salesResult.done =>
    /\ Ge(salesResult.value, Num(0)) /\ Ge(salesResult.value2, Num(0))
    /\ (salesArg.frequencyType = "once" =>
          salesResult.value = Num(1) /\ salesResult.value2 = Num(1))
    /\ (ArgMonths \in 1..12 /\ ArgValue >= 1 =>
          /\ (salesArg.frequencyType = "perYear" =>
                salesResult.value = Num(ArgValue) /\ salesResult.value2 = Num(ArgValue))
          /\ (salesArg.frequencyType = "perMonth" =>
                /\ salesResult.value = Num(ArgValue * ArgMonths)
                /\ salesResult.value2 = Num(ArgValue * ArgMonths)))

C5_Witness ==
  /\ SalesDone("perMonth") /\ ArgValue = 2 /\ ArgMonths = 6
  /\ salesResult.value = Num(12)

\* C6: for perWeek, with activeMonths in 1..12 and value >= 1, the result is
\* value * activeMonths * W with W = 52/12; value=1, activeMonths=12 gives 52.
C6_PerWeek ==
  SalesDone("perWeek") /\ ArgMonths \in 1..12 /\ ArgValue >= 1
    => /\ salesResult.value = Frac(ArgValue * ArgMonths * 52, 12)
       /\ salesResult.value2 = Frac(ArgValue * ArgMonths * 52, 12)
       /\ (ArgValue = 1 /\ ArgMonths = 12 => salesResult.value = Num(52))

C6_Witness ==
  /\ SalesDone("perWeek") /\ ArgValue = 1 /\ ArgMonths = 12
  /\ salesResult.value = Num(52)


(***************************************************************************)
(* parseRatio as a function of its argument                                *)
(***************************************************************************)
\* Bound of the arguments: the number of colons in the text.
MaxColons == 2

\* The arguments: a bare number text (no colon), a pair a:b, or a pair
\* followed by further ":1" parts; each with or without blanks around it.
RatioArgs ==
  { arg \in [ colons : 0..MaxColons, a : NumberTexts, b : NumberTexts, padded : BOOLEAN ] :
      arg.colons = 0 => arg.b = One }

RECURSIVE MoreParts(_)
MoreParts(k) == IF k <= 0 THEN <<>> ELSE <<":", "1">> \o MoreParts(k - 1)

\* The text handed to parseRatio.
RatioText(arg) ==
  LET core == IF arg.colons = 0 THEN arg.a.text
              ELSE arg.a.text \o <<":">> \o arg.b.text \o MoreParts(arg.colons - 1)
  IN  IF arg.padded THEN <<" ">> \o core \o <<" ">> ELSE core

InitParse ==
  /\ AnnualIncomeInit
  /\ ScheduleInit
  /\ SalesIdle
  /\ ratioArg \in RatioArgs
  /\ ratioResult = NoRatioResult
  /\ FormsInit
  /\ lastOp = NoOp

ParseRatio ==
  /\ ~ratioResult.done
  /\ ratioResult' = [ done   |-> TRUE,
                      value  |-> parseRatio(RatioText(ratioArg)),
                      value2 |-> parseRatio2(RatioText(ratioArg)) ]
  /\ lastOp' = Op("parseRatio", null, "")
  /\ UNCHANGED <<ratioArg, notParse>>

NextParse == ParseRatio

SpecParse == InitParse /\ [][NextParse]_vars

\* The argument is a pair of numbers a:b with b > 0 and a >= 0, or a bare
\* positive number; and the number it then stands for.
WellFormedRatio(arg) ==
  \/ arg.colons = 0 /\ arg.a.numeric /\ Gt(arg.a.value, Num(0))
  \/ /\ arg.colons = 1 /\ arg.a.numeric /\ arg.b.numeric
     /\ Gt(arg.b.value, Num(0)) /\ Ge(arg.a.value, Num(0))

RatioOf(arg) == IF arg.colons = 0 THEN arg.a.value ELSE Div(arg.a.value, arg.b.value)

\* C12: parseRatio (both versions) returns a / b for a pair a:b of numbers
\* with b > 0 and a >= 0, n for a bare positive number n, and the default
\* ratio 1 for every other input (no number, bare number <= 0, second side
\* <= 0, first side < 0, more than one colon).
C12_ParseRatio ==
  ratioResult.done =>
    LET expected == IF WellFormedRatio(ratioArg) THEN RatioOf(ratioArg) ELSE Num(1)
    IN  ratioResult.value = expected /\ ratioResult.value2 = expected

\* What holds: the first version is as C12 says; the second version returns
\* Infinity where the first returns the default 1.
C12_DefaultOneOrInfinity ==
  ratioResult.done =>
    /\ ratioResult.value =
         IF WellFormedRatio(ratioArg) THEN RatioOf(ratioArg) ELSE Num(1)
    /\ ratioResult.value2 =
         IF WellFormedRatio(ratioArg) THEN RatioOf(ratioArg) ELSE Infinity

\* " 7:1 " was parsed to 7 by both versions.
C12_Witness ==
  /\ ratioResult.done /\ RatioText(ratioArg) = <<" ", "7", ":", "1", " ">>
  /\ ratioResult.value = Num(7) /\ ratioResult.value2 = Num(7)

(***************************************************************************)
(* Fresh volume, ratio input and dried volume of a species row             *)
(***************************************************************************)
\* What the inputs deliver: a number input gives a decimal literal or "" (and
\* the handler is also tried on text that is no number); the ratio box is a
\* text input and gives any text.
FreshVolumeInputs ==
  { <<"1", "0", "0">>, <<"0">>, <<"-", "3">>, <<"2", ".", "5">>, <<"a", "b", "c">>, <<>> }

RatioInputs ==
  { <<"5">>, <<"7", ":", "1">>, <<"0", ":", "1">>, <<"-", "2", ":", "1">>, <<"a", "b", "c">>,
    InfinityString, InfinityString \o <<":">> \o InfinityString }

DriedVolumeInputs ==
  { <<"2", "5">>, <<"3">>, <<"0">>, <<"-", "4">>, <<"a", "b", "c">> }

EditFreshVolume == \E v \in FreshVolumeInputs : UpdateSpeciesField(FirstId, "freshVolume", Str(v))

EditRatioInput == \E v \in RatioInputs : UpdateSpeciesField(FirstId, "ratioInput", Str(v))

EditDriedVolume == \E v \in DriedVolumeInputs : UpdateSpeciesField(FirstId, "driedVolume", Str(v))

InitRatio ==
  /\ AnnualIncomeInit
  /\ ScheduleInit
  /\ SalesIdle
  /\ ParseIdle
  /\ FormsInit
  /\ lastOp = NoOp

NextRatio == EditFreshVolume \/ EditRatioInput \/ EditDriedVolume

SpecRatio == InitRatio /\ [][NextRatio]_vars

\* The row the edits are addressed to.
Row == speciesData[1]

LastEdit(field) == lastOp.name = "updateSpeciesField" /\ lastOp.field = field

\* C7: a fresh-volume edit to newFresh sets freshVolume = newFresh, sets
\* driedVolume to newFresh / freshToDryRatio when the ratio is > 0 and to 0
\* otherwise, and leaves freshToDryRatio and the ratio text unchanged.
C7_FreshVolumeEdit ==
  [][\A v \in FreshVolumeInputs :
       UpdateSpeciesField(FirstId, "freshVolume", Str(v)) =>
         LET newFresh == FloatOrZero(Str(v))
         IN  /\ Row'.freshVolume = newFresh
             /\ Row'.driedVolume = IF Gt(Row.freshToDryRatio, Num(0))
                                   THEN Div(newFresh, Row.freshToDryRatio)
                                   ELSE Num(0)
             /\ Row'.freshToDryRatio = Row.freshToDryRatio
             /\ Row'.ratioInput = Row.ratioInput]_vars

C7_Witness ==
  /\ LastEdit("freshVolume")
  /\ Row.freshVolume = Num(100) /\ Row.freshToDryRatio = Num(7)
  /\ Row.driedVolume = Frac(100, 7) /\ Row.ratioInput = <<"7", ":", "1">>

\* Re-applying the fresh-volume edit with the row's current freshVolume.
Reapplied == UpdatedSpecies(Row, "freshVolume", NumberValue(Row.freshVolume))

ReapplyIsNoOp ==
  /\ Reapplied.driedVolume = Row.driedVolume
  /\ Reapplied.freshToDryRatio = Row.freshToDryRatio

\* C8 as stated: in every reachable row state, re-applying the fresh-volume
\* edit with the current freshVolume leaves driedVolume and freshToDryRatio
\* unchanged.
C8_Original == ReapplyIsNoOp

\* C8 as amended: re-applying the fresh-volume edit is a no-op in the initial
\* state and in every state whose latest edit was a fresh-volume or a
\* ratio-input edit (after a dried-volume edit driedVolume is what the user
\* typed, not freshVolume / ratio).
C8_ReapplyAfterFreshOrRatio ==
  lastOp = NoOp \/ LastEdit("freshVolume") \/ LastEdit("ratioInput") => ReapplyIsNoOp

C8_Witness ==
  /\ LastEdit("ratioInput")
  /\ Row.freshVolume = Num(100) /\ Row.freshToDryRatio = Num(7)
  /\ Row.driedVolume = Frac(100, 7)
  /\ Reapplied = Row

\* C9: a dried-volume edit to newDried sets driedVolume = newDried, leaves
\* freshVolume unchanged and, when newDried > 0 and freshVolume > 0, sets
\* freshToDryRatio = freshVolume / newDried; fresh=100 with ratio input "5"
\* has dried=20, and editing dried to 25 then gives ratio 4.
C9_DriedVolumeEdit ==
  [][\A v \in DriedVolumeInputs :
       UpdateSpeciesField(FirstId, "driedVolume", Str(v)) =>
         LET newDried == FloatOrZero(Str(v))
         IN  /\ Row'.driedVolume = newDried
             /\ Row'.freshVolume = Row.freshVolume
             /\ (Gt(newDried, Num(0)) /\ Gt(Row.freshVolume, Num(0)) =>
                   /\ Row'.freshToDryRatio = Div(Row.freshVolume, newDried)
                   /\ Mul(Row'.freshToDryRatio, newDried) = Row.freshVolume)
             /\ (/\ LastEdit("ratioInput")
                 /\ Row.freshVolume = Num(100) /\ Row.ratioInput = <<"5">>
                 => /\ Row.driedVolume = Num(20)
                    /\ (v = <<"2", "5">> => Row'.freshToDryRatio = Num(4)))]_vars

C9_Witness ==
  /\ LastEdit("driedVolume")
  /\ Row.freshVolume = Num(100) /\ Row.driedVolume = Num(25)
  /\ Row.freshToDryRatio = Num(4)

\* C10: no reachable row state stores NaN or Infinity in freshToDryRatio, and
\* none has the sentinel in driedVolume as a number.
C10_Original == isFinite(Row.freshToDryRatio) /\ isFinite(Row.driedVolume)

\* What does hold of the sentinel: a dried-volume edit to a positive value
\* while freshVolume <= 0 stores the number Infinity in freshToDryRatio (line
\* 226); driedVolume is always finite, and after a fresh-volume or
\* ratio-input edit that leaves the ratio Infinity, NaN or not positive it is 0.
C10_InfinitySentinel ==
  /\ (/\ LastEdit("driedVolume")
      /\ Gt(Row.driedVolume, Num(0)) /\ Le(Row.freshVolume, Num(0))
      => Row.freshToDryRatio = Infinity)
  /\ isFinite(Row.driedVolume)
  /\ (/\ LastEdit("freshVolume") \/ LastEdit("ratioInput")
      /\ ~(isFinite(Row.freshToDryRatio) /\ Gt(Row.freshToDryRatio, Num(0)))
      => Row.driedVolume = Num(0))

\* The sentinel was stored by a dried-volume edit (only that path leaves the
\* ratio text at "5"), and a later fresh-volume edit to 100 did not divide by it.
C10_Witness ==
  /\ LastEdit("freshVolume")
  /\ Row.freshToDryRatio = Infinity /\ Row.ratioInput = <<"5">>
  /\ Row.freshVolume = Num(100) /\ Row.driedVolume = Num(0)


\* C11: a dried-volume edit to 0, to text that is no number or to a negative
\* number does not set freshToDryRatio to NaN; the ratio becomes the value
\* parsed from the row's ratio text.
C11_DriedToZero ==
  LastEdit("driedVolume") /\ Le(Row.driedVolume, Num(0)) =>
    /\ ~isNaN(Row.freshToDryRatio)
    /\ Row.freshToDryRatio = parseRatio(Row.ratioInput)

\* The same without the ratio texts whose two sides parse to Infinity: the
\* part of C11 that holds.
C11_ParsedFromText ==
  LastEdit("driedVolume") /\ Le(Row.driedVolume, Num(0)) =>
    /\ Row.freshToDryRatio = parseRatio(Row.ratioInput)
    /\ (isNaN(Row.freshToDryRatio) =>
          Row.ratioInput = InfinityString \o <<":">> \o InfinityString)

\* The dried volume was edited to 0 after 20 had been derived from fresh=100
\* and the ratio text "5": the ratio is 5 again, parsed from the text.
C11_Witness ==
  /\ LastEdit("driedVolume")
  /\ Row.driedVolume = Num(0) /\ Row.freshVolume = Num(100)
  /\ Row.ratioInput = <<"5">> /\ Row.freshToDryRatio = Num(5)

\* C13: a ratio-input edit to "7:1" makes freshToDryRatio 7, and a fresh-volume
\* edit to f after it yields driedVolume = f / 7; every ratio-input edit whose
\* text parses to r > 0 stores r and leaves driedVolume = freshVolume / r.
C13_RoundTrip ==
  [][/\ \A v \in RatioInputs :
          UpdateSpeciesField(FirstId, "ratioInput", Str(v)) =>
            /\ (v = <<"7", ":", "1">> => Row'.freshToDryRatio = Num(7))
            /\ (Gt(parseRatio(v), Num(0)) =>
                  /\ Row'.freshToDryRatio = parseRatio(v)
                  /\ Row'.freshVolume = Row.freshVolume
                  /\ Row'.driedVolume = Div(Row.freshVolume, parseRatio(v)))
     /\ \A v \in FreshVolumeInputs :
          /\ UpdateSpeciesField(FirstId, "freshVolume", Str(v))
          /\ LastEdit("ratioInput") /\ Row.ratioInput = <<"7", ":", "1">>
          => Row'.driedVolume = Div(FloatOrZero(Str(v)), Num(7))]_vars

\* After the ratio text "7:1", the fresh volume was edited to 2.5: the dried
\* volume is 2.5 / 7 = 5/14.
C13_Witness ==
  /\ LastEdit("freshVolume")
  /\ Row.ratioInput = <<"7", ":", "1">> /\ Row.freshToDryRatio = Num(7)
  /\ Row.freshVolume = Frac(5, 2) /\ Row.driedVolume = Frac(5, 14)

\* C14 as stated: in every reachable row state, driedVolume > 0 implies
\* freshVolume = freshToDryRatio * driedVolume.
C14_Original ==
  Gt(Row.driedVolume, Num(0)) => Row.freshVolume = Mul(Row.freshToDryRatio, Row.driedVolume)

\* C14 as amended: in every reachable row state in which driedVolume > 0 and
\* the ratio is defined (a finite number, not the Infinity that stands for the
\* undefined ratio), freshVolume = freshToDryRatio * driedVolume; when the
\* ratio is undefined, freshVolume <= 0.
C14_FreshIsRatioTimesDried ==
  Gt(Row.driedVolume, Num(0)) =>
    IF isFinite(Row.freshToDryRatio)
    THEN Row.freshVolume = Mul(Row.freshToDryRatio, Row.driedVolume)
    ELSE Row.freshToDryRatio = Infinity /\ Le(Row.freshVolume, Num(0))

\* The dried volume was edited to 3 with fresh=100: the ratio is 100/3, and
\* 100/3 * 3 = 100.
C14_Witness ==
  /\ LastEdit("driedVolume")
  /\ Row.driedVolume = Num(3) /\ Row.freshVolume = Num(100)
  /\ Row.freshToDryRatio = Frac(100, 3)

\* C15: in every reachable row state, whatever raw input the edits had,
\* freshVolume >= 0 and driedVolume >= 0.
C15_NonNegativeVolumes ==
  Ge(Row.freshVolume, Num(0)) /\ Ge(Row.driedVolume, Num(0))

\* What holds: a volume is negative only after a negative number was typed
\* into a volume field; text that is no number is stored as 0, and the
\* derived dried volume has the sign of the fresh volume.
C15_NegativeOnlyFromNegativeInput ==
  /\ Lt(Row.freshVolume, Num(0)) => Row.freshVolume = Num(0 - 3)
  /\ Lt(Row.driedVolume, Num(0)) =>
       \/ Row.driedVolume = Num(0 - 4)
       \/ /\ Lt(Row.freshVolume, Num(0))
          /\ Row.driedVolume = Div(Row.freshVolume, Row.freshToDryRatio)
  /\ ~isNaN(Row.freshVolume) /\ ~isNaN(Row.driedVolume)

\* The fresh volume was edited to "-3" with ratio 5: both volumes are negative.
C15_Witness ==
  /\ LastEdit("freshVolume")
  /\ Row.freshVolume = Num(0 - 3) /\ Row.freshToDryRatio = Num(5)
  /\ Row.driedVolume = Frac(0 - 3, 5)

\* C16: in every reachable row state freshToDryRatio is a strictly positive
\* number or the undefined sentinel (Infinity); no ratio input makes it 0 or
\* negative.
C16_Original == Gt(Row.freshToDryRatio, Num(0))

\* What holds: in every reachable row state freshToDryRatio is not negative:
\* it is strictly positive (or Infinity), or it is 0 and the ratio text is a
\* pair with first side 0 ("0:1"), or it is NaN and the ratio text is
\* "Infinity:Infinity".
C16_RatioNeverNegative ==
  \/ Gt(Row.freshToDryRatio, Num(0))
  \/ Row.freshToDryRatio = Num(0) /\ Row.ratioInput = <<"0", ":", "1">>
  \/ /\ isNaN(Row.freshToDryRatio)
     /\ Row.ratioInput = InfinityString \o <<":">> \o InfinityString

\* The ratio text was edited to "0:1" with fresh=100: the stored ratio is 0
\* and the dried volume 0.
C16_Witness ==
  /\ LastEdit("ratioInput") /\ Row.ratioInput = <<"0", ":", "1">>
  /\ Row.freshToDryRatio = Num(0)
  /\ Row.freshVolume = Num(100) /\ Row.driedVolume = Num(0)

(***************************************************************************)
(* The frequency fields of a species row and the frequency modal           *)
(***************************************************************************)
\* Raw inputs of the frequency numbers: text that is no number, 0, a
\* negative number, a number above 12, and a number in range.
FrequencyNumberInputs ==
  { <<"a", "b", "c">>, <<"0">>, <<"-", "3">>, <<"1", "5">>, <<"7">> }

EditFrequencyNumber ==
  \E field \in FrequencyNumberFields, v \in FrequencyNumberInputs :
    UpdateSpeciesField(FirstId, field, Str(v))

OpenModal == OpenFrequencyModal(FirstId)

ChangeModalNumber ==
  \E field \in FrequencyNumberFields, v \in FrequencyNumberInputs :
    HandleModalFrequencyChange(field, Str(v))

\* The options picked in the modal's select: one that multiplies and one that
\* divides by an interval (rows start as perYear).
ModalTypeChoices == {"perWeek", "everyXWeeks"}

ChangeModalType ==
  \E t \in ModalTypeChoices : HandleModalFrequencyChange("frequencyType", Str(t))

InitFrequency ==
  /\ AnnualIncomeInit
  /\ ScheduleInit
  /\ SalesIdle
  /\ ParseIdle
  /\ FormsInit
  /\ lastOp = NoOp

NextFrequency ==
  \/ EditFrequencyNumber
  \/ OpenModal
  \/ CloseFrequencyModal
  \/ ChangeModalNumber
  \/ ChangeModalType
  \/ SaveFrequencyChanges

SpecFrequency == InitFrequency /\ [][NextFrequency]_vars

FrequencyFieldsInRange(f) ==
  /\ Ge(f.frequencyValue, Num(1))
  /\ Ge(f.everyXValue, Num(1))
  /\ Ge(f.monthsMarked, Num(1)) /\ Le(f.monthsMarked, Num(12))

\* C1: after any sequence of edits of a row (updateSpeciesField, directly or
\* from the modal's Save) or of the modal draft (handleModalFrequencyChange),
\* with any raw input, frequencyValue >= 1, everyXValue >= 1 and
\* 1 <= monthsMarked <= 12 hold of every row and of the draft; the stored
\* values are the ones calculateAnnualSales computes with (its own clamps
\* change nothing).
C1_FrequencyFieldsClamped ==
  /\ \A i \in 1..Len(speciesData) :
       /\ FrequencyFieldsInRange(speciesData[i])
       /\ validMonthsOf(speciesData[i]) = speciesData[i].monthsMarked
       /\ valOf(speciesData[i]) = speciesData[i].frequencyValue
       /\ xValOf(speciesData[i]) = speciesData[i].everyXValue
  /\ FrequencyFieldsInRange(modalFrequency)

\* monthsMarked was edited to "15" (the only raw input that gives 12) in a
\* row whose other frequency numbers came from out-of-range inputs, too.
C1_Witness ==
  /\ LastEdit("monthsMarked")
  /\ Row.monthsMarked = Num(12)
  /\ Row.frequencyValue = Num(1)
  /\ Row.everyXValue = Num(15)
  /\ modalFrequency.monthsMarked = Num(7)

(***************************************************************************)
(* The schedule form                                                       *)
(***************************************************************************)
\* What the number inputs of the schedule form deliver ("" when cleared).
MonthsMarkedInputs == { <<>>, <<"6">>, <<"1", "2">> }

FrequencyValueInputs == { <<>>, <<"1">>, <<"3">> }

EveryXValueInputs == { <<>>, <<"0">>, <<"2">>, <<"4">> }

TimesPerSixMonthsInputs == { <<>>, <<"5">> }

HoursInputs == { <<"3">>, <<"4">> }

ActivityNameInputs == { <<>>, <<"a">> }

ChangeActivityName == \E s \in ActivityNameInputs : SetActivityName(s)

ChangeFrequencyType == \E t \in ScheduleFrequencyType : SetFrequencyType(t)

ChangeFrequencyValue == \E s \in FrequencyValueInputs : SetFrequencyValue(s)

ChangeEveryXValue == \E s \in EveryXValueInputs : SetEveryXValue(s)

ChangeMonthsMarked == \E s \in MonthsMarkedInputs : SetMonthsMarked(s)

ChangeTimesPerSixMonths == \E s \in TimesPerSixMonthsInputs : SetTimesPerSixMonths(s)

ChangeHoursMin == \E s \in HoursInputs : SetHoursMin(s)

ChangeHoursMax == \E s \in HoursInputs : SetHoursMax(s)

ChangeHours == \E s \in HoursInputs : SetHours(s)

InitSchedule ==
  /\ AnnualIncomeInit
  /\ ScheduleInit
  /\ SalesIdle
  /\ ParseIdle
  /\ FormsInit
  /\ lastOp = NoOp

NextSchedule ==
  \/ ChangeActivityName
  \/ ChangeFrequencyType
  \/ ChangeFrequencyValue
  \/ ChangeEveryXValue
  \/ ChangeMonthsMarked
  \/ ChangeTimesPerSixMonths
  \/ ChangeHoursMin
  \/ ChangeHoursMax
  \/ ChangeHours
  \/ ToggleHourRange

SpecSchedule == InitSchedule /\ [][NextSchedule]_vars

\* The divisor of the division that totalTimes performs in this render, if any.
TotalTimesDivides == schedule.frequencyType \in {"everyXMonths", "everyXWeeks"}

\* C2: in no state reachable by user edits is an occurrence count computed by
\* dividing by zero: when totalTimes divides, its interval is not 0 (and the
\* count is a finite number), and the interval calculateAnnualSales divides
\* by is at least 1.
C2_NoDivisionByZero ==
  /\ TotalTimesDivides => schedule.everyXValue # Num(0) /\ isFinite(totalTimes)
  /\ \A i \in 1..Len(speciesData) : Ge(xValOf(speciesData[i]), Num(1))


(***************************************************************************)
(* The list of species rows: addSpecies, removeSpecies, edits addressed to *)
(* a row id, and the frequency modal of a row                              *)
(***************************************************************************)
\* Bounds: the number of rows addSpecies may grow the list to, and the last
\* value of the clock.
MaxRows == 2

MaxNow == 2

RowIds == {speciesData[i].id : i \in 1..Len(speciesData)}

\* An id that no row has or had.
AbsentId == MaxNow + MaxRows + 1

\* addSpecies (lines 155-165): the new row, Date.now() having returned t
newSpecies(t) ==
  LET fresh == NewSpecies(t + Len(speciesData), <<>>)
  IN  [fresh EXCEPT !.driedVolume =
         IF Gt(fresh.freshToDryRatio, Num(0))
         THEN Div(fresh.freshVolume, fresh.freshToDryRatio) ELSE Num(0)]

AddSpecies ==
  \E t \in now..MaxNow :
    /\ Len(speciesData) < MaxRows
    /\ now' = t
    /\ speciesData' = Append(speciesData, newSpecies(t))
    /\ lastOp' = Op("addSpecies", t + Len(speciesData), "")
    /\ UNCHANGED <<isModalOpen, editingSpeciesId, modalFrequency,
                   scheduleVars, salesVars, parseVars, formVars>>

\* removeSpecies (lines 167-171), called for each id of ids by the handlers
\* of one render: the guard reads the list that was rendered, the filters are
\* queued updaters and apply one after the other to the current list.
removeSpecies(rendered, currentData, ids) ==
  IF Len(rendered) > 1
  THEN SelectSeq(currentData, LAMBDA species : species.id \notin ids)
  ELSE currentData

RemoveSpecies(ids) ==
  /\ speciesData' = removeSpecies(speciesData, speciesData, ids)
  /\ lastOp' = Op("removeSpecies", null, IF Cardinality(ids) = 1 THEN "one" ELSE "several")
  /\ UNCHANGED <<isModalOpen, editingSpeciesId, modalFrequency, notAnnual>>

\* One click on a row's Remove button.
RemoveOne == \E id \in RowIds : RemoveSpecies({id})

\* Several removeSpecies calls before the list is rendered again.
RemoveSeveral == \E ids \in SUBSET RowIds : Cardinality(ids) > 1 /\ RemoveSpecies(ids)

\* An edit addressed to the id of a row, or to an id no row has.
EditRowMonths ==
  \E id \in RowIds \cup {AbsentId} : UpdateSpeciesField(id, "monthsMarked", Str(<<"7">>))

OpenRowModal == \E id \in RowIds : OpenFrequencyModal(id)

ChangeRowModal ==
  \/ HandleModalFrequencyChange("frequencyType", Str("everyXWeeks"))
  \/ HandleModalFrequencyChange("everyXValue", Str(<<"7">>))

InitRows ==
  /\ AnnualIncomeInit
  /\ ScheduleInit
  /\ SalesIdle
  /\ ParseIdle
  /\ FormsInit
  /\ lastOp = NoOp

NextRows ==
  \/ AddSpecies
  \/ RemoveOne
  \/ RemoveSeveral
  \/ EditRowMonths
  \/ OpenRowModal
  \/ ChangeRowModal
  \/ CloseFrequencyModal
  \/ SaveFrequencyChanges

SpecRows == InitRows /\ [][NextRows]_vars


\* C17: an edit addressed to a row id leaves every row with a different id
\* as it was, keeps the number and the order of the rows, and changes
\* nothing when no row has that id.
C17_RowIsolation ==
  [][lastOp'.name = "updateSpeciesField" =>
       /\ Len(speciesData') = Len(speciesData)
       /\ \A i \in 1..Len(speciesData) :
            /\ speciesData'[i].id = speciesData[i].id
            /\ speciesData[i].id # lastOp'.id => speciesData'[i] = speciesData[i]
       /\ (lastOp'.id \notin RowIds => speciesData' = speciesData)]_vars

\* The second of two rows has been edited and the first still has the months
\* it was added with.
C17_Witness ==
  /\ Len(speciesData) = 2
  /\ speciesData[1].id # speciesData[2].id
  /\ lastOp = Op("updateSpeciesField", speciesData[2].id, "monthsMarked")
  /\ speciesData[2].monthsMarked = Num(7)
  /\ speciesData[1].monthsMarked = Num(12)

\* The row as saveFrequencyChanges leaves it: the four frequency fields are
\* the draft's, every other field is the row's.
WithDraft(species, draft) ==
  [species EXCEPT !.frequencyType  = draft.frequencyType,
                  !.frequencyValue = draft.frequencyValue,
                  !.everyXValue    = draft.everyXValue,
                  !.monthsMarked   = draft.monthsMarked]

\* The row the modal was opened for: the first row with the id being edited
\* (find, line 256); 0 when the row has been removed since.
EditedRow ==
  IF editingSpeciesId \in RowIds
  THEN CHOOSE i \in 1..Len(speciesData) :
         /\ speciesData[i].id = editingSpeciesId
         /\ \A j \in 1..(i - 1) : speciesData[j].id # editingSpeciesId
  ELSE 0

\* C18: saving the modal sets the four frequency fields of the edited row to
\* the draft's values, leaves its other fields and every other row unchanged,
\* and closes the modal (isModalOpen false, editingSpeciesId null).
C18_Original ==
  [][lastOp'.name = "saveFrequencyChanges" =>
       /\ Len(speciesData') = Len(speciesData)
       /\ \A i \in 1..Len(speciesData) :
            speciesData'[i] =
              IF i = EditedRow
              THEN WithDraft(speciesData[i], modalFrequency)
              ELSE speciesData[i]
       /\ isModalOpen' = FALSE
       /\ editingSpeciesId' = null]_vars

\* What does hold of a save: the draft is written to every row that has the
\* id being edited, and rows with a different id are unchanged.
C18_SaveWritesDraft ==
  [][lastOp'.name = "saveFrequencyChanges" =>
       /\ Len(speciesData') = Len(speciesData)
       /\ \A i \in 1..Len(speciesData) :
            speciesData'[i] =
              IF speciesData[i].id = editingSpeciesId
              THEN WithDraft(speciesData[i], modalFrequency)
              ELSE speciesData[i]
       /\ isModalOpen' = FALSE
       /\ editingSpeciesId' = null]_vars

\* A save has just written a draft of "every 7 weeks" to one of two rows; the
\* other row still has the frequency it was added with.
C18_Witness ==
  /\ lastOp.name = "saveFrequencyChanges"
  /\ ~isModalOpen
  /\ Len(speciesData) = 2
  /\ modalFrequency.frequencyType = "everyXWeeks"
  /\ modalFrequency.everyXValue = Num(7)
  /\ \E i, j \in 1..2 :
       /\ speciesData[i].id # speciesData[j].id
       /\ speciesData[i] = WithDraft(speciesData[i], modalFrequency)
       /\ speciesData[j].frequencyType = "perYear"
       /\ speciesData[j].everyXValue = Num(1)

ModalOps == {"openFrequencyModal", "handleModalFrequencyChange", "closeFrequencyModal"}

\* C19: opening the modal, editing the draft and closing the modal by Cancel,
\* the Escape key or a click on the backdrop each leave the list of species
\* as it is, so after open, any number of edits and close the list is the one
\* the modal was opened on.
C19_ModalEditsOnlyDraft ==
  [][lastOp'.name \in ModalOps => speciesData' = speciesData]_vars

\* The modal has just been closed on a draft of "every 7 weeks" and no row has
\* that frequency.
C19_Witness ==
  /\ lastOp.name = "closeFrequencyModal"
  /\ ~isModalOpen /\ editingSpeciesId = null
  /\ modalFrequency.frequencyType = "everyXWeeks"
  /\ modalFrequency.everyXValue = Num(7)
  /\ \A i \in 1..Len(speciesData) :
       /\ speciesData[i].frequencyType = "perYear"
       /\ speciesData[i].everyXValue = Num(1)
  /\ Len(speciesData) >= 1

\* C20: the list of species is never empty, whatever addSpecies and
\* removeSpecies calls are made, several removeSpecies calls against the same
\* rendered list included.
C20_NeverEmpty == Len(speciesData) >= 1

\* The part of C20 that holds: removeSpecies on a list of one row changes
\* nothing, and one removeSpecies call per rendered list removes all the rows
\* that have the id and leaves a row unless every row has that id.
C20_SingleRowKept ==
  [][lastOp'.name = "removeSpecies" =>
       /\ Len(speciesData) = 1 => speciesData' = speciesData
       /\ (lastOp'.field = "one" /\ Cardinality(RowIds) > 1 => Len(speciesData') >= 1)]_vars

\* Two removeSpecies calls made against the same rendered list of two rows
\* have emptied the list.
C20_Witness ==
  /\ lastOp = Op("removeSpecies", null, "several")
  /\ speciesData = <<>>


(***************************************************************************)
(* householdIncome.tsx: the members of the household and the active one    *)
(***************************************************************************)
\* Bound: the number of members addMember may grow the list to.
MaxMembers == 3

\* Array.prototype.filter((_, i) => i !== index), indices counted from 0
WithoutIndex(list, index) ==
  LET kept == {i \in 1..Len(list) : i - 1 # index}
      Place(k) == CHOOSE i \in kept : Cardinality({j \in kept : j < i}) = k - 1
  IN  [k \in 1..Cardinality(kept) |-> list[Place(k)]]

\* addMember (lines 133-136)
AddMember ==
  /\ Len(members) < MaxMembers
  /\ members' = Append(members, newMemberSources)
  /\ activeMemberIndex' = Len(members)
  /\ lastOp' = Op("addMember", null, "")
  /\ UNCHANGED notHousehold

\* Mutant: the active index is not adjusted when a member is removed.
removeMemberKeepsIndex(index) ==
  /\ IF Len(members) <= 1
     THEN UNCHANGED householdVars
     ELSE /\ members' = WithoutIndex(members, index)
          /\ activeMemberIndex' = activeMemberIndex
  /\ lastOp' = Op("removeMember", index, "")
  /\ UNCHANGED notHousehold

\* removeMember (lines 139-147)
removeMember(index) ==
  /\ IF Len(members) <= 1
     THEN UNCHANGED householdVars
     ELSE /\ members' = WithoutIndex(members, index)
          /\ activeMemberIndex' =
               IF activeMemberIndex >= index /\ activeMemberIndex > 0
               THEN activeMemberIndex - 1
               ELSE activeMemberIndex
  /\ lastOp' = Op("removeMember", index, "")
  /\ UNCHANGED notHousehold

\* The Remove button (line 278) removes the active member; the handler itself
\* takes any index, one past the end included.
RemoveMember == \E index \in 0..Len(members) : removeMember(index)

\* nextMember (lines 150-154)
NextMember ==
  /\ activeMemberIndex' =
       IF activeMemberIndex < Len(members) - 1
       THEN activeMemberIndex + 1 ELSE activeMemberIndex
  /\ lastOp' = Op("nextMember", null, "")
  /\ UNCHANGED <<members, notHousehold>>

\* prevMember (lines 157-161)
PrevMember ==
  /\ activeMemberIndex' =
       IF activeMemberIndex > 0 THEN activeMemberIndex - 1 ELSE activeMemberIndex
  /\ lastOp' = Op("prevMember", null, "")
  /\ UNCHANGED <<members, notHousehold>>

\* The member select (lines 247-256) and the member cards (558-564): the
\* options and the cards are the indices of the rendered members.
SelectMember ==
  \E index \in 0..(Len(members) - 1) :
    /\ activeMemberIndex' = index
    /\ lastOp' = Op("selectMember", index, "")
    /\ UNCHANGED <<members, notHousehold>>

\* handleSourceChange (lines 163-175) from the Seaweed-related checkbox
\* (lines 304-313) of a source of the rendered member
ToggleSeaweed ==
  \E sourceIdx \in 0..1 :
    /\ activeMemberIndex + 1 \in 1..Len(members)
    /\ members' =
         [members EXCEPT ![activeMemberIndex + 1][sourceIdx + 1].isSeaweed = ~@]
    /\ lastOp' = Op("handleSourceChange", activeMemberIndex, "isSeaweed")
    /\ UNCHANGED <<activeMemberIndex, notHousehold>>

InitHousehold ==
  /\ AnnualIncomeInit
  /\ ScheduleInit
  /\ SalesIdle
  /\ ParseIdle
  /\ FormsInit
  /\ lastOp = NoOp

NextHousehold ==
  \/ AddMember
  \/ RemoveMember
  \/ NextMember
  \/ PrevMember
  \/ SelectMember
  \/ ToggleSeaweed

SpecHousehold == InitHousehold /\ [][NextHousehold]_vars

\* C21: the active index always addresses a member: 0 <= activeMemberIndex
\* < members.length, so the list keeps at least one member.
C21_ActiveMemberExists ==
  /\ 0 <= activeMemberIndex
  /\ activeMemberIndex < Len(members)

\* The last of three members was active and has been removed: the active
\* index has moved down to the new last member.
C21_Witness ==
  /\ lastOp = Op("removeMember", 2, "")
  /\ Len(members) = 2
  /\ activeMemberIndex = 1

(***************************************************************************)
(* InvestmentItemsForm (src/unnamed/part_002): age and depreciation        *)
(***************************************************************************)
\* calculateCurrentAge (lines 32-37)
calculateCurrentAge(yearPurchased, currentYear) ==
  IF \/ yearPurchased.t # "number"
     \/ Le(yearPurchased.v, Num(0))
     \/ Gt(yearPurchased.v, currentYear)
  THEN Num(0)
  ELSE Add(currentYear, Neg(yearPurchased.v))

\* The division of line 48 is reached.
DepreciationDivides(costNow, usefulLife) ==
  /\ ~(Le(usefulLife, Num(0)) \/ Lt(costNow, Num(0)))
  /\ costNow # Num(0)

\* calculateDepreciation (lines 40-49)
calculateDepreciation(costNow, usefulLife) ==
  IF Le(usefulLife, Num(0)) \/ Lt(costNow, Num(0)) THEN Num(0)
  ELSE IF costNow = Num(0) THEN Num(0)
  ELSE MathRound(Div(costNow, usefulLife))

\* Mutant: a useful life of 0 does not make the depreciation inapplicable.
shouldCalculateDepAnyLife(item) ==
  /\ Ge(calculateCurrentAge(item.yearPurchased, Num(CURRENT_YEAR)),
        Num(DEPRECIATION_AGE_THRESHOLD))
  /\ Gt(item.costNow, Num(0))

\* shouldCalculateDep (line 93)
shouldCalculateDep(item) ==
  /\ Ge(calculateCurrentAge(item.yearPurchased, Num(CURRENT_YEAR)),
        Num(DEPRECIATION_AGE_THRESHOLD))
  /\ Gt(item.costNow, Num(0))
  /\ Gt(item.usefulLife, Num(0))

\* processedItems (lines 90-105); the item's own fields are left out of the
\* result.
processedItems(list) ==
  [i \in 1..Len(list) |->
     [ currentAge |-> calculateCurrentAge(list[i].yearPurchased, Num(CURRENT_YEAR)),
       calculatedDepreciation |->
         IF shouldCalculateDep(list[i])
         THEN calculateDepreciation(list[i].costNow, list[i].usefulLife)
         ELSE Num(0),
       isDepreciationApplicable |-> shouldCalculateDep(list[i]),
       divides |-> /\ shouldCalculateDep(list[i])
                   /\ DepreciationDivides(list[i].costNow, list[i].usefulLife) ]]

\* totalDepreciation (line 189): reduce((sum, item) => sum + ..., 0)
RECURSIVE SumDepreciation(_, _)
SumDepreciation(processed, sum) ==
  IF processed = <<>> THEN sum
  ELSE SumDepreciation(Tail(processed), Add(sum, Head(processed).calculatedDepreciation))

totalDepreciation(processed) == SumDepreciation(processed, Num(0))

\* The years, costs and lives of the items given to processedItems: an empty
\* year, non-positive and future years, ages below, at and above the
\* threshold; negative and zero costs and lives.
YearArgs == {EmptyYear} \cup {Year(y) : y \in {-5, 0, 2022, 2023, 2024, CURRENT_YEAR + 1}}

CostArgs == {-1, 0, 1, 7, 20000}

LifeArgs == {-1, 0, 2, 3, 5}

ItemArgs ==
  {InvestmentItem(<<"1">>, "Boat", y, 25000, c, l) :
     y \in YearArgs, c \in CostArgs, l \in LifeArgs}

InitDepreciation ==
  /\ AnnualIncomeInit
  /\ ScheduleInit
  /\ SalesIdle
  /\ ParseIdle
  /\ HouseholdInit
  /\ InvestmentInit
  /\ InputsInit
  /\ depArg \in {<<a, b>> : a \in ItemArgs,
                   b \in {InvestmentItem(<<"2">>, "Papag", Year(2021), 500, c, 3) : c \in {0, 7}}}
  /\ depResult = NoDepResult
  /\ lastOp = NoOp

ProcessItems ==
  /\ ~depResult.done
  /\ depResult' = [done |-> TRUE,
                   processedItems |-> processedItems(depArg),
                   totalDepreciation |-> totalDepreciation(processedItems(depArg))]
  /\ lastOp' = Op("processedItems", null, "")
  /\ UNCHANGED <<depArg, householdVars, investmentVars, inputsVars, notForms>>

NextDepreciation == ProcessItems

SpecDepreciation == InitDepreciation /\ [][NextDepreciation]_vars

\* The age the claim gives an item: CURRENT_YEAR - yearPurchased, 0 for an
\* empty, non-positive or future year.
AgeOf(item) ==
  IF item.yearPurchased = EmptyYear THEN 0
  ELSE IF item.yearPurchased.v.n <= 0 \/ item.yearPurchased.v.n > CURRENT_YEAR THEN 0
  ELSE CURRENT_YEAR - item.yearPurchased.v.n

ApplicableOf(item) ==
  AgeOf(item) >= 3 /\ item.costNow.n > 0 /\ item.usefulLife.n > 0

\* C22: depreciation is applicable exactly when the age is >= 3, costNow > 0
\* and usefulLife > 0; it is round(costNow / usefulLife) when applicable and 0
\* otherwise, the total is the sum over the applicable items, and no division
\* by a useful life of 0 takes place.
C22_Depreciation ==
  depResult.done =>
    /\ \A i \in 1..Len(depArg) :
         LET item == depArg[i]
             p    == depResult.processedItems[i]
         IN  /\ p.currentAge = Num(AgeOf(item))
             /\ p.isDepreciationApplicable = ApplicableOf(item)
             /\ p.calculatedDepreciation =
                  IF ApplicableOf(item)
                  THEN Num((2 * item.costNow.n + item.usefulLife.n) \div (2 * item.usefulLife.n))
                  ELSE Num(0)
             /\ p.divides => item.usefulLife # Num(0)
    /\ depResult.totalDepreciation =
         Add(IF ApplicableOf(depArg[1]) THEN depResult.processedItems[1].calculatedDepreciation ELSE Num(0),
             IF ApplicableOf(depArg[2]) THEN depResult.processedItems[2].calculatedDepreciation ELSE Num(0))

\* An item of age 3 with a cost of 7 and a life of 2 depreciates by
\* round(3.5) = 4, next to an item that is not applicable; the total is 4.
C22_Witness ==
  /\ depResult.done
  /\ depArg[1].yearPurchased = Year(2023)
  /\ depArg[1].costNow = Num(7) /\ depArg[1].usefulLife = Num(2)
  /\ depArg[2].costNow = Num(0)
  /\ depResult.processedItems[1].calculatedDepreciation = Num(4)
  /\ ~depResult.processedItems[2].isDepreciationApplicable
  /\ depResult.totalDepreciation = Num(4)

(***************************************************************************)
(* InvestmentItemsForm (src/unnamed/part_002): the handlers                *)
(***************************************************************************)
NumericItemFields == {"yearPurchased", "costWhenBought", "costNow", "usefulLife"}

\* Mutant: negative costs and lives are stored as they are parsed.
ProcessedItemValueNoClamp(field, value) ==
  IF field \notin NumericItemFields THEN value
  ELSE LET parsed == IF isNaN(parseInt(value)) THEN Num(0) ELSE parseInt(value)
       IN  IF field = "yearPurchased"
           THEN IF Lt(parsed, Num(1900)) \/ Gt(parsed, Num(CURRENT_YEAR))
                THEN EmptyYear ELSE NumberValue(parsed)
           ELSE parsed

\* processedValue of handleItemChange (lines 109-123)
ProcessedItemValue(field, value) ==
  IF field \notin NumericItemFields THEN value
  ELSE LET parsed == IF isNaN(parseInt(value)) THEN Num(0) ELSE parseInt(value)
       IN  IF field = "yearPurchased"
           THEN IF Lt(parsed, Num(1900)) \/ Gt(parsed, Num(CURRENT_YEAR))
                THEN EmptyYear ELSE NumberValue(parsed)
           ELSE IF Lt(parsed, Num(0)) THEN Num(0) ELSE parsed

\* handleItemChange (lines 107-129)
handleItemChange(prevItems, id, field, value) ==
  [i \in 1..Len(prevItems) |->
     IF prevItems[i].id = id
     THEN [prevItems[i] EXCEPT ![field] = ProcessedItemValue(field, value)]
     ELSE prevItems[i]]

HandleItemChange(id, field, value) ==
  /\ items' = handleItemChange(items, id, field, value)
  /\ lastOp' = Op("handleItemChange", id, field)
  /\ UNCHANGED <<newItem, isAddingItem, notInvestment>>

\* processedValue of handleNewItemChange (lines 132-146)
ProcessedNewItemValue(field, value) ==
  IF field \notin NumericItemFields THEN value
  ELSE LET parsed == parseInt(value)
       IN  IF field = "yearPurchased"
           THEN IF isNaN(parsed) \/ Lt(parsed, Num(1900)) \/ Gt(parsed, Num(CURRENT_YEAR))
                THEN EmptyYear ELSE NumberValue(parsed)
           ELSE IF isNaN(parsed) \/ Lt(parsed, Num(0)) THEN Num(0) ELSE parsed

\* handleNewItemChange (lines 131-149), from the inputs of the add row
HandleNewItemChange(field, value) ==
  /\ isAddingItem
  /\ newItem' = [newItem EXCEPT ![field] = ProcessedNewItemValue(field, value)]
  /\ lastOp' = Op("handleNewItemChange", null, field)
  /\ UNCHANGED <<items, isAddingItem, notInvestment>>

\* Date.now() is far above the ids '1', '2' and '3' of the initial items: the
\* clock of the model counts from this value.
ClockOrigin == 1000

\* The validation of line 154
NewItemValid ==
  /\ newItem.name # ""
  /\ newItem.yearPurchased.t = "number"
  /\ Truthy(newItem.yearPurchased.v)

\* Mutant: the name of the draft is not required.
AddNewItemAnyName(t) ==
  /\ isAddingItem
  /\ newItem.yearPurchased.t = "number"
  /\ items' = Append(items,
       [ id             |-> NatToString(ClockOrigin + t),
         name           |-> newItem.name,
         yearPurchased  |-> newItem.yearPurchased,
         costWhenBought |-> OrElse(newItem.costWhenBought, Num(0)),
         costNow        |-> OrElse(newItem.costNow, Num(0)),
         usefulLife     |-> OrElse(newItem.usefulLife, Num(0)) ])
  /\ newItem' = emptyNewItem
  /\ isAddingItem' = FALSE
  /\ now' = t
  /\ lastOp' = Op("addNewItem", null, "added")
  /\ UNCHANGED <<householdVars, depVars, inputsVars, annualVars, scheduleVars, salesVars, parseVars>>

\* addNewItem (lines 152-181), from the Save button of the add row, Date.now()
\* returning t
AddNewItem(t) ==
  /\ isAddingItem
  /\ IF NewItemValid
     THEN /\ items' = Append(items,
               [ id             |-> NatToString(ClockOrigin + t),
                 name           |-> newItem.name,
                 yearPurchased  |-> newItem.yearPurchased,
                 costWhenBought |-> OrElse(newItem.costWhenBought, Num(0)),
                 costNow        |-> OrElse(newItem.costNow, Num(0)),
                 usefulLife     |-> OrElse(newItem.usefulLife, Num(0)) ])
          /\ newItem' = emptyNewItem
          /\ isAddingItem' = FALSE
          /\ now' = t
          /\ lastOp' = Op("addNewItem", null, "added")
     ELSE /\ UNCHANGED <<items, newItem, isAddingItem, now>>
          /\ lastOp' = Op("addNewItem", null, "alert")
  /\ UNCHANGED <<householdVars, depVars, inputsVars, annualVars, scheduleVars, salesVars, parseVars>>

\* removeItem (lines 183-185)
RemoveItem(id) ==
  /\ items' = SelectSeq(items, LAMBDA item : item.id # id)
  /\ lastOp' = Op("removeItem", id, "")
  /\ UNCHANGED <<newItem, isAddingItem, notInvestment>>

\* The Add New Investment Item button (line 411) and Cancel (line 394)
SetIsAddingItem(open) ==
  /\ isAddingItem = ~open
  /\ isAddingItem' = open
  /\ lastOp' = Op("setIsAddingItem", null, "")
  /\ UNCHANGED <<items, newItem, notInvestment>>

ItemIds == {items[i].id : i \in 1..Len(items)}

(***************************************************************************)
(* InvestmentItemsForm: the add row                                        *)
(***************************************************************************)
\* Bound: the number of items the Save button may grow the list to.
MaxItems == 4

NewNameInputs == {"", "Net"}

NewYearInputs ==
  { <<>>, <<"a", "b", "c">>, <<"1", "8", "9", "9">>, <<"2", "0", "2", "6">> }

NewCostInputs == { <<"-", "4">>, <<"7">> }

OpenAddRow == SetIsAddingItem(TRUE)

CancelAddRow == SetIsAddingItem(FALSE)

ChangeNewItem ==
  \/ \E v \in NewNameInputs : HandleNewItemChange("name", v)
  \/ \E v \in NewYearInputs : HandleNewItemChange("yearPurchased", v)
  \/ \E v \in NewCostInputs : HandleNewItemChange("costNow", v)

SaveNewItem ==
  \E t \in now..MaxNow : Len(items) < MaxItems /\ AddNewItem(t)

RemoveAnItem == \E id \in ItemIds : RemoveItem(id)

InitNewItem ==
  /\ AnnualIncomeInit
  /\ ScheduleInit
  /\ SalesIdle
  /\ ParseIdle
  /\ FormsInit
  /\ lastOp = NoOp

NextNewItem ==
  \/ OpenAddRow
  \/ CancelAddRow
  \/ ChangeNewItem
  \/ SaveNewItem
  \/ RemoveAnItem

SpecNewItem == InitNewItem /\ [][NextNewItem]_vars

\* C23: addNewItem appends exactly one item, resets the draft and closes the
\* add row when the draft has a non-empty name and a numeric year; otherwise
\* it leaves the items, the draft and isAddingItem unchanged.
C23_AddNewItem ==
  [][lastOp'.name = "addNewItem" =>
       IF newItem.name # "" /\ newItem.yearPurchased.t = "number"
       THEN /\ Len(items') = Len(items) + 1
            /\ SubSeq(items', 1, Len(items)) = items
            /\ items'[Len(items')].name = newItem.name
            /\ items'[Len(items')].yearPurchased = newItem.yearPurchased
            /\ items'[Len(items')].costNow = newItem.costNow
            /\ items'[Len(items')].usefulLife = newItem.usefulLife
            /\ items'[Len(items')].costWhenBought = newItem.costWhenBought
            /\ newItem' = emptyNewItem
            /\ isAddingItem' = FALSE
       ELSE /\ items' = items
            /\ newItem' = newItem
            /\ isAddingItem' = isAddingItem]_vars

\* Save has just been refused for a draft that has a year but no name: the
\* add row is still open on that draft and the three initial items are there.
C23_Witness ==
  /\ lastOp = Op("addNewItem", null, "alert")
  /\ isAddingItem
  /\ newItem.name = ""
  /\ newItem.yearPurchased = Year(2026)
  /\ items = initialItems

(***************************************************************************)
(* InvestmentItemsForm: edits of the items                                 *)
(***************************************************************************)
\* Raw values of the number inputs: not a number, a year below 1900, a year
\* after CURRENT_YEAR and a year in range; a negative cost and no number.
ItemYearInputs ==
  { <<"a", "b", "c">>, <<"1", "8", "9", "9">>, <<"2", "0", "2", "7">>,
    <<"2", "0", "2", "6">> }

ItemCostInputs == { <<"-", "4">>, <<"a", "b", "c">> }

ItemCostFields == {"costWhenBought", "costNow", "usefulLife"}

\* An id that no item has.
AbsentItemId == <<"9">>

EditItemYear ==
  \E id \in ItemIds \cup {AbsentItemId}, v \in ItemYearInputs :
    HandleItemChange(id, "yearPurchased", v)

EditItemCost ==
  \E id \in ItemIds \cup {AbsentItemId}, field \in ItemCostFields, v \in ItemCostInputs :
    HandleItemChange(id, field, v)

InitItems ==
  /\ AnnualIncomeInit
  /\ ScheduleInit
  /\ SalesIdle
  /\ ParseIdle
  /\ FormsInit
  /\ lastOp = NoOp

NextItems ==
  \/ EditItemYear
  \/ EditItemCost

SpecItems == InitItems /\ [][NextItems]_vars

ItemInRange(item) ==
  /\ Ge(item.costWhenBought, Num(0))
  /\ Ge(item.costNow, Num(0))
  /\ Ge(item.usefulLife, Num(0))
  /\ \/ item.yearPurchased = EmptyYear
     \/ /\ item.yearPurchased.t = "number"
        /\ Ge(item.yearPurchased.v, Num(1900))
        /\ Le(item.yearPurchased.v, Num(CURRENT_YEAR))

\* C24: after any handleItemChange edits every item has costWhenBought >= 0,
\* costNow >= 0, usefulLife >= 0 and a yearPurchased that is empty or in
\* [1900, CURRENT_YEAR], and an edit of one item leaves every other item
\* unchanged.
C24_ItemsInRange ==
  [][/\ \A i \in 1..Len(items) : ItemInRange(items[i])
     /\ lastOp'.name = "handleItemChange" =>
          /\ Len(items') = Len(items)
          /\ \A i \in 1..Len(items) :
               /\ ItemInRange(items'[i])
               /\ items[i].id # lastOp'.id => items'[i] = items[i]
          /\ Cardinality({i \in 1..Len(items) : items'[i] # items[i]}) <= 1]_vars

\* The cost now of the first item has been edited with "-4" and is 0, its
\* year is empty after an edit out of range, and the other two items are the
\* initial ones.
C24_Witness ==
  /\ lastOp = Op("handleItemChange", <<"1">>, "costNow")
  /\ items[1].costNow = Num(0)
  /\ items[1].yearPurchased = EmptyYear
  /\ items[2] = initialItems[2]
  /\ items[3] = initialItems[3]

(***************************************************************************)
(* The ratio text and the numeric ratio of a row                           *)
(***************************************************************************)
\* C25: in every reachable row state the ratio text and the numeric ratio
\* agree: parseRatio(ratioInput) = freshToDryRatio.
C25_TextAgreesWithRatio ==
  parseRatio(Row.ratioInput) = Row.freshToDryRatio

\* What does hold: the text and the number agree (or are both NaN) just after
\* an edit of the ratio text and just after an edit of the dried volume to a
\* value <= 0; an edit of the dried volume to a value > 0 is what separates
\* them.
C25_AgreeAfterTextEdit ==
  \/ LastEdit("ratioInput")
  \/ LastEdit("driedVolume") /\ Le(Row.driedVolume, Num(0))
  => \/ parseRatio(Row.ratioInput) = Row.freshToDryRatio
     \/ isNaN(Row.freshToDryRatio) /\ isNaN(parseRatio(Row.ratioInput))

\* The dried volume was edited to 3 with fresh = 100: the ratio is 100/3 and
\* the text is "33.3:1", which parses to 33.3.
C25_Witness ==
  /\ LastEdit("driedVolume")
  /\ Row.freshVolume = Num(100) /\ Row.driedVolume = Num(3)
  /\ Row.freshToDryRatio = Frac(100, 3)
  /\ Row.ratioInput = <<"3", "3", ".", "3", ":", "1">>
  /\ parseRatio(Row.ratioInput) = Frac(333, 10)

(***************************************************************************)
(* SeaweedInputsForm (fisheriestForm.tsx): items, ranges and totals        *)
(***************************************************************************)
\* Bound: the number of items Add Input may grow the list to.
MaxInputItems == 2

\* calcAnnualFrequency (lines 280-296)
calcAnnualFrequency(item, freq) ==
  CASE item.freqUnit = "year"      -> freq
    [] item.freqUnit = "month"     -> Mul(freq, Num(12))
    [] item.freqUnit = "week"      -> Mul(freq, Num(52))
    [] item.freqUnit = "everyXMos" -> Div(Num(12), freq)
    [] item.freqUnit = "everyXWks" -> Div(Num(52), freq)
    [] OTHER                       -> freq

\* totalMin and totalMax of an item (lines 401-406)
totalMin(it) == Mul(Mul(it.qtyMin, calcAnnualFrequency(it, it.freqMin)), it.priceMin)

totalMax(it) == Mul(Mul(it.qtyMax, calcAnnualFrequency(it, it.freqMax)), it.priceMax)

\* grandMin and grandMax (lines 386-394): reduce from 0
RECURSIVE SumTotals(_, _, _)
SumTotals(list, sum, useMax) ==
  IF list = <<>> THEN sum
  ELSE SumTotals(Tail(list),
                 Add(sum, IF useMax THEN totalMax(Head(list)) ELSE totalMin(Head(list))),
                 useMax)

grandMin == SumTotals(inputItems, Num(0), FALSE)

grandMax == SumTotals(inputItems, Num(0), TRUE)

\* updateItem (lines 382-383): { ...item, ...updated } for the item at index i
updateItem(i, updated) ==
  [idx \in 1..Len(inputItems) |->
     IF idx - 1 = i
     THEN [f \in DOMAIN inputItems[idx] |->
             IF f \in DOMAIN updated THEN updated[f] ELSE inputItems[idx][f]]
     ELSE inputItems[idx]]

UpdateItem(i, updated) ==
  /\ inputItems' = updateItem(i, updated)
  /\ lastOp' = Op("updateItem", i, "")
  /\ UNCHANGED notInputs

\* addItem (line 381)
AddItem ==
  /\ Len(inputItems) < MaxInputItems
  /\ inputItems' = Append(inputItems, defaultItem)
  /\ lastOp' = Op("addItem", null, "")
  /\ UNCHANGED notInputs

\* removeItem (line 384), from the Remove button of a rendered item
RemoveInputItem ==
  \E i \in 0..(Len(inputItems) - 1) :
    /\ inputItems' = WithoutIndex(inputItems, i)
    /\ lastOp' = Op("removeItem", i, "")
    /\ UNCHANGED notInputs

\* The three RangeInputRow usages (lines 436-495): the flag, the minimum and
\* the maximum each of them edits.
RangeRows ==
  { [flag |-> "qtyRange",   min |-> "qtyMin",   max |-> "qtyMax",   inputs |-> {<<"5">>}],
    [flag |-> "freqRange",  min |-> "freqMin",  max |-> "freqMax",  inputs |-> {}],
    [flag |-> "priceRange", min |-> "priceMin", max |-> "priceMax", inputs |-> {<<"2">>}] }

\* onToggleRange: the Min-Max? checkbox (lines 366-373)
ToggleRange ==
  \E i \in 0..(Len(inputItems) - 1), row \in RangeRows :
    UpdateItem(i, (row.flag :> ~inputItems[i + 1][row.flag]))

\* onChangeMin and onChangeMax: the two inputs of a row in range mode
\* (lines 335-353), with +e.target.value
ChangeMinOrMax ==
  \E i \in 0..(Len(inputItems) - 1), row \in RangeRows :
    \E v \in row.inputs :
      /\ inputItems[i + 1][row.flag]
      /\ \/ UpdateItem(i, (row.min :> ToNumber(v)))
         \/ UpdateItem(i, (row.max :> ToNumber(v)))

\* onChangeSingle: the one input of a row in single-value mode (lines 355-363)
ChangeSingle ==
  \E i \in 0..(Len(inputItems) - 1), row \in RangeRows :
    \E v \in row.inputs :
      /\ ~inputItems[i + 1][row.flag]
      /\ UpdateItem(i, (row.min :> ToNumber(v)) @@ (row.max :> ToNumber(v)))

\* The unit select of the frequency row (lines 466-478)
ChangeFreqUnit ==
  \E i \in 0..(Len(inputItems) - 1) : UpdateItem(i, ("freqUnit" :> "month"))

InitInputs ==
  /\ AnnualIncomeInit
  /\ ScheduleInit
  /\ SalesIdle
  /\ ParseIdle
  /\ FormsInit
  /\ lastOp = NoOp

NextInputs ==
  \/ AddItem
  \/ RemoveInputItem
  \/ ToggleRange
  \/ ChangeMinOrMax
  \/ ChangeSingle
  \/ ChangeFreqUnit

SpecInputs == InitInputs /\ [][NextInputs]_vars

SingleValueMode(it) == ~it.qtyRange /\ ~it.freqRange /\ ~it.priceRange

\* C26: an item whose quantity, frequency and price are all in single-value
\* mode has an annual cost minimum equal to its maximum, so that with every
\* item in that mode the grand total is one figure.
C26_SingleModeOneFigure ==
  /\ \A i \in 1..Len(inputItems) :
       SingleValueMode(inputItems[i]) => totalMin(inputItems[i]) = totalMax(inputItems[i])
  /\ (\A i \in 1..Len(inputItems) : SingleValueMode(inputItems[i])) => grandMin = grandMax

\* What does hold: an item that has never left single-value mode in a row
\* keeps the minimum and the maximum of that row equal; they separate only
\* through an edit made in range mode, and switching the mode back does not
\* bring them together.
C26_EqualUnlessEditedInRange ==
  [][lastOp'.name = "updateItem" /\ Len(inputItems') = Len(inputItems) =>
       \A i \in 1..Len(inputItems), row \in RangeRows :
         /\ ~inputItems[i][row.flag]
         /\ inputItems[i][row.min] = inputItems[i][row.max]
         => inputItems'[i][row.min] = inputItems'[i][row.max]]_vars

\* An item in single-value mode throughout, with quantities 1 and 5 left from
\* range mode and a price of 2: its annual cost is 2 at least and 10 at most.
C26_Witness ==
  /\ Len(inputItems) = 1
  /\ SingleValueMode(inputItems[1])
  /\ inputItems[1].qtyMin = Num(1) /\ inputItems[1].qtyMax = Num(5)
  /\ inputItems[1].priceMin = Num(2) /\ inputItems[1].priceMax = Num(2)
  /\ totalMin(inputItems[1]) = Num(2)
  /\ totalMax(inputItems[1]) = Num(10)
  /\ grandMin # grandMax
=============================================================================
